---- MODULE Spec2Model ----
(***************************************************************************)
(* Model of the conversation PDF exporter                                  *)
(* (client/src/components/ExportConversationPDF.tsx, exportToPDF).         *)
(*                                                                         *)
(* Text is a sequence of one-character strings.  Vertical positions are    *)
(* millimetres; text widths are tenths of a millimetre.  The A4 page of    *)
(* jsPDF measures 297.0000833 x 210.0015556 mm; every cursor value the     *)
(* code produces is an integer, so comparing against the integer part is   *)
(* exact.                                                                  *)
(***************************************************************************)
EXTENDS Integers, Sequences, FiniteSets, TLC

(* ------------------------------------------------------------------ *)
(* Bounds of the model                                                 *)
(* ------------------------------------------------------------------ *)
\* longest logical line enumerated exhaustively over LineAlphabet
MaxLineLen == 5
\* longest message list built from LayoutCatalogue
MaxMsgs == 3

(* ------------------------------------------------------------------ *)
(* Program constants                                                   *)
(* ------------------------------------------------------------------ *)
pageHeight == 297
pageWidth == 210
margin == 15
FooterReserve == 10
HeaderCursor == 42
HeaderSpace == 15
HeaderAdvance == 10
BlankLineHeight == 5
LineHeight == 6
BodySpacing == 3
RefsLabelSpace == 10
RefsLabelAdvance == 6
RefSpace == 12
TitleLineHeight == 5
UrlSpace == 4
UrlAdvance == 5
RefsSpacing == 3
MessageSpacing == 5
WrapInset == 6
TitleInset == 10
HeaderTitleMax == 80
FileTitleMax == 50

\* maxWidth = pageWidth - 2 * margin (mm)
maxWidth == pageWidth - 2 * margin

\* the usable bottom bound of checkNewPage
BottomBound == pageHeight - margin - FooterReserve

(* ------------------------------------------------------------------ *)
(* Text helpers                                                        *)
(* ------------------------------------------------------------------ *)
\* the value of an absent (undefined/null) string property
undefined == <<"<undefined>">>

Min(S) == CHOOSE x \in S : \A y \in S : x <= y
Max(S) == CHOOSE x \in S : \A y \in S : x >= y

RECURSIVE Flatten(_)
Flatten(ss) == IF ss = <<>> THEN <<>> ELSE Head(ss) \o Flatten(Tail(ss))

RECURSIVE Repeat(_, _)
Repeat(s, n) == IF n = 0 THEN <<>> ELSE s \o Repeat(s, n - 1)

RECURSIVE SeqsUpTo(_, _)
SeqsUpTo(S, n) ==
  IF n = 0 THEN {<<>>}
  ELSE LET shorter == SeqsUpTo(S, n - 1)
       IN  shorter \cup {Append(s, c) : s \in {t \in shorter : Len(t) = n - 1}, c \in S}

Whitespace == {" ", "\t"}

\* mutant: only the empty line counts as blank, the line is not trimmed
IsBlankEmptyOnly(line) == line = <<>>

\* !line.trim()
IsBlank(line) == \A i \in 1..Len(line) : line[i] \in Whitespace

\* content.split('\n')
SplitLines(s) ==
  LET from[i \in 1..(Len(s) + 1)] ==
        LET nl == {j \in i..Len(s) : s[j] = "\n"}
        IN  IF nl = {} THEN <<SubSeq(s, i, Len(s))>>
            ELSE <<SubSeq(s, i, Min(nl) - 1)>> \o from[Min(nl) + 1]
  IN  from[1]

Lower == {"a","b","c","d","e","f","g","h","i","j","k","l","m",
          "n","o","p","q","r","s","t","u","v","w","x","y","z"}
Upper == {"A","B","C","D","E","F","G","H","I","J","K","L","M",
          "N","O","P","Q","R","S","T","U","V","W","X","Y","Z"}
Digits == {"0","1","2","3","4","5","6","7","8","9"}

\* a character the class [^a-z0-9] with flag i does not match
IsAlnum(c) == c \in Lower \cup Upper \cup Digits

(* ------------------------------------------------------------------ *)
(* Text measurement (doc.getTextWidth), tenths of a millimetre.        *)
(* "L" stands for a long unbroken stretch of text; the other           *)
(* characters have their approximate Helvetica widths at 10 pt.        *)
(* ------------------------------------------------------------------ *)
CharWidth(c, bold) ==
  CASE c = "L" -> IF bold THEN 1100 ELSE 1000
    [] c = " " -> 10
    [] c = "*" -> 14
    [] OTHER   -> IF bold THEN 22 ELSE 20

RECURSIVE GetTextWidth(_, _, _)
GetTextWidth(text, bold, fontSize) ==
  IF text = <<>> THEN 0
  ELSE (CharWidth(Head(text), bold) * fontSize) \div 10
       + GetTextWidth(Tail(text), bold, fontSize)

(* ------------------------------------------------------------------ *)
(* Emphasis tokenizer: /\*\*(.*?)\*\*/g driven by exec()               *)
(* ------------------------------------------------------------------ *)
\* "**" at 0-based position k of line
StarsAt(line, k) == k + 2 <= Len(line) /\ line[k + 1] = "*" /\ line[k + 2] = "*"

\* mutant: a greedy group, closed by the last marker of the line
RegexExecGreedy(line, lastIndex) ==
  LET closers(i) == {j \in (i + 2)..Len(line) : StarsAt(line, j)}
      starts == {i \in lastIndex..Len(line) : StarsAt(line, i) /\ closers(i) # {}}
  IN  IF starts = {} THEN [found |-> FALSE, index |-> 0, length |-> 0, group |-> <<>>]
      ELSE LET i == Min(starts)
               j == Max(closers(i))
           IN  [found |-> TRUE, index |-> i, length |-> j + 2 - i,
                group |-> SubSeq(line, i + 3, j)]

\* boldRegex.exec(line) with the regex's lastIndex: the leftmost opening
\* marker that has a closing marker, and the nearest such closing marker
RegexExec(line, lastIndex) ==
  LET closers(i) == {j \in (i + 2)..Len(line) : StarsAt(line, j)}
      starts == {i \in lastIndex..Len(line) : StarsAt(line, i) /\ closers(i) # {}}
  IN  IF starts = {} THEN [found |-> FALSE, index |-> 0, length |-> 0, group |-> <<>>]
      ELSE LET i == Min(starts)
               j == Min(closers(i))
           IN  [found |-> TRUE, index |-> i, length |-> j + 2 - i,
                group |-> SubSeq(line, i + 3, j)]

\* the while loop over boldRegex.exec: parts found and the final lastIndex
RECURSIVE BoldLoop(_, _, _)
BoldLoop(line, lastIndex, parts) ==
  LET match == RegexExec(line, lastIndex)
  IN  IF ~match.found THEN [parts |-> parts, lastIndex |-> lastIndex]
      ELSE BoldLoop(line, match.index + match.length,
             (IF match.index > lastIndex
                THEN Append(parts, [text |-> SubSeq(line, lastIndex + 1, match.index),
                                    bold |-> FALSE])
                ELSE parts)
             \o <<[text |-> match.group, bold |-> TRUE]>>)

\* mutant: the text after the last marker pair is not added
TokenizeDropsRest(line) ==
  LET r == BoldLoop(line, 0, <<>>)
  IN  IF Len(r.parts) = 0 THEN <<[text |-> line, bold |-> FALSE]>> ELSE r.parts

\* mutant: every character of the line is a run of its own
TokenizeByCharacter(line) == [i \in 1..Len(line) |-> [text |-> <<line[i]>>, bold |-> FALSE]]

\* lines 155-178: the runs of one non-blank logical line
Tokenize(line) ==
  LET r == BoldLoop(line, 0, <<>>)
      withRest == IF r.lastIndex < Len(line)
                    THEN Append(r.parts, [text |-> SubSeq(line, r.lastIndex + 1, Len(line)),
                                          bold |-> FALSE])
                    ELSE r.parts
  IN  IF Len(withRest) = 0 THEN <<[text |-> line, bold |-> FALSE]>> ELSE withRest

(* ------------------------------------------------------------------ *)
(* Title wrapping: wrapText / doc.splitTextToSize at font size 9,      *)
(* normal face.  Words are packed greedily, joined by single spaces;   *)
(* the titles of the catalogue hold no word wider than the limit.      *)
(* ------------------------------------------------------------------ *)
RECURSIVE SplitWords(_)
SplitWords(s) ==
  LET sp == {i \in 1..Len(s) : s[i] = " "}
  IN  IF sp = {} THEN <<s>>
      ELSE <<SubSeq(s, 1, Min(sp) - 1)>> \o SplitWords(SubSeq(s, Min(sp) + 1, Len(s)))

\* words joined by single spaces
RECURSIVE JoinWords(_)
JoinWords(ws) ==
  IF ws = <<>> THEN <<>>
  ELSE IF Len(ws) = 1 THEN Head(ws)
  ELSE Head(ws) \o <<" ">> \o JoinWords(Tail(ws))

\* lines: finished lines; line: the words of the line being filled
RECURSIVE PackWords(_, _, _, _, _)
PackWords(words, lines, line, fontSize, maxlen) ==
  IF words = <<>> THEN Append(lines, JoinWords(line))
  ELSE LET word == Head(words)
       IN  IF line # <<>>
              /\ GetTextWidth(JoinWords(Append(line, word)), FALSE, fontSize) > maxlen
             THEN PackWords(Tail(words), Append(lines, JoinWords(line)), <<word>>,
                            fontSize, maxlen)
             ELSE PackWords(Tail(words), lines, Append(line, word), fontSize, maxlen)

\* wrapText(text, maxWidth, fontSize); maxWidthMm in millimetres
wrapText(text, maxWidthMm, fontSize) ==
  PackWords(SplitWords(text), <<>>, <<>>, fontSize, maxWidthMm * 10)

(* ------------------------------------------------------------------ *)
(* Filename (lines 283-287)                                            *)
(* ------------------------------------------------------------------ *)
\* .replace(/[^a-z0-9]/gi, "_")
ReplaceNonAlnum(title) ==
  [i \in 1..Len(title) |-> IF IsAlnum(title[i]) THEN title[i] ELSE "_"]

\* .substring(0, n)
Substring0(s, n) == SubSeq(s, 1, IF Len(s) < n THEN Len(s) ELSE n)

\* mutant: the length cap is missing
SanitizeTitleNoCap(title) == ReplaceNonAlnum(title)

SanitizeTitle(title) == Substring0(ReplaceNonAlnum(title), FileTitleMax)

\* the clock read by new Date() during one invocation (lines 35, 285)
VARIABLE now

\* the days an invocation is run on
Moments == {"1/15/2025", "1/16/2025"}

\* new Date().toISOString().split("T")[0] at the export moment
IsoDate ==
  IF now = "1/15/2025" THEN <<"2","0","2","5","-","0","1","-","1","5">>
                       ELSE <<"2","0","2","5","-","0","1","-","1","6">>

FilePrefix == <<"M","e","d","C","h","a","t","_">>
FileSuffix == <<".","p","d","f">>

MakeFilename(title) == FilePrefix \o SanitizeTitle(title) \o <<"_">> \o IsoDate \o FileSuffix

(* ------------------------------------------------------------------ *)
(* Dates (formatDate, lines 34-44)                                     *)
(* ------------------------------------------------------------------ *)
\* new Date().toLocaleDateString() at the export moment
ExportMoment == <<now>>

formatDate(dateStr) ==
  IF dateStr = undefined \/ dateStr = <<>> THEN ExportMoment
  ELSE <<"en-US:">> \o dateStr

(* ------------------------------------------------------------------ *)
(* Notices and labels                                                  *)
(* ------------------------------------------------------------------ *)
EmptyNotice == "No messages to export"
FailureNotice == "Failed to export conversation. Please try again."
SuccessNotice == "Conversation exported successfully!"
DocTitle == <<"MedChat - Medical Consultation">>
AssistantLabel == <<"MedChat AI">>
RefsLabel == <<"References:">>
ProductLabel == "MedChat Medical AI"
DefaultTitle == <<"C","o","n","v","e","r","s","a","t","i","o","n">>
DefaultUserName == <<"U","s","e","r">>

(* ------------------------------------------------------------------ *)
(* Inputs                                                              *)
(* ------------------------------------------------------------------ *)
Msg(role, content, searchResults, createdAt, citations) ==
  [role |-> role, content |-> content, searchResults |-> searchResults,
   createdAt |-> createdAt, citations |-> citations]

\* n logical lines, each the given line, joined by "\n"
LinesOf(line, n) == IF n = 0 THEN <<>> ELSE line \o Repeat(<<"\n">> \o line, n - 1)

UrlX == <<"h","t","t","p","s",":","/","/","x">>
UrlY == <<"h","t","t","p","s",":","/","/","y">>
Stamp == <<"2024-01-15T10:00:00Z">>

RefShort == [title |-> <<"D","i","a","b","e","t","e","s">>, url |-> UrlX]
\* two words that do not fit one title line
RefLong == [title |-> <<"L"," ","L">>, url |-> UrlY]

mShort == Msg("user", <<"a">>, <<>>, undefined, <<>>)
mGaps == Msg("assistant",
             <<"a","\n","\n","*","*","b","*","*"," ","c","\n"," ","\n","a">>,
             <<>>, Stamp, <<UrlX>>)
mRefs == Msg("assistant", <<"a"," ","*","*","b","*","*"," ","c">>,
             <<RefShort, RefLong>>, Stamp, <<UrlX, UrlY>>)
\* a body after which the URL of a two-line reference is drawn 4 above the bound
mTallGap == Msg("user", LinesOf(<<"a">>, 32) \o <<"\n">>, <<RefLong>>, undefined, <<>>)
\* a body after which a two-line reference title ends just under the bound
mTallRefs == Msg("assistant", LinesOf(<<"a">>, 33), <<RefLong>>, undefined, <<>>)
\* a body without references after which the cursor stands at 257, where a
\* message header still fits and a line after it does not
mFill == Msg("user", LinesOf(<<"a">>, 32) \o <<"\n">>, <<>>, undefined, <<>>)
mWide == Msg("assistant", <<"L","*","*","L","*","*","a","\n","a">>, <<RefShort>>, undefined, <<>>)
\* a message without content: content.split throws
mBad == Msg("user", undefined, <<>>, undefined, <<>>)

\* a message object without the optional searchResults property
undefinedList == <<[title |-> undefined, url |-> undefined]>>
mNoList == Msg("assistant", <<"a">>, undefinedList, undefined, <<UrlY>>)

LayoutCatalogue == {mShort, mGaps, mRefs, mTallGap, mTallRefs}

LineAlphabet == {"a", "*", " ", "L"}

\* the spec's example and lines with two marker pairs
ExtraLines ==
  { <<"a"," ","*","*","b","*","*"," ","c">>,
    <<"*","*","a","*","*","*","*","L","*","*">>,
    <<"*","*","L","*","*","a","*","*","L","*","*">>,
    <<"*","*","*","*","*","*","*","*">>,
    \* fits the line in the normal face, not in the faces it is drawn in
    <<"*","*","L","*","*">> \o Repeat(<<"a">>, 35),
    \* an empty emphasis pair before a run wider than the line
    <<"*","*","*","*","L","L">>,
    \* fills the line exactly
    <<"L","*","*">> \o Repeat(<<"a">>, 37) \o <<"*","*">> }

TextLines == SeqsUpTo(LineAlphabet, MaxLineLen) \cup ExtraLines

TitleSlashes == <<"M","y"," ","/"," ","C","h","a","t",":"," ","N","o","t","e","s","?">>
Titles ==
  { <<>>, TitleSlashes, <<"T","_","1">>,
    Repeat(<<"a","-">>, 25), Repeat(<<"Z","9"," ">>, 17), Repeat(<<"?">>, 81), undefined }

\* where the drawing library can raise an exception
FaultPoints == {"header", "msgHeader", "body", "refs", "footer", "filename"}

SmallInputs == { <<>>, <<mShort>>, <<mRefs>>, <<mBad>>, <<mShort, mBad>>, <<mGaps, mWide>>,
                 <<mNoList, mShort>> }

\* the props of the component and the fault the environment injects
Inputs ==
     [messages : {<<Msg("assistant", l, <<>>, undefined, <<>>)>> : l \in TextLines},
      conversationTitle : {TitleSlashes}, userName : {DefaultUserName}, faultAt : {"none"}]
  \cup
     [messages : SeqsUpTo(LayoutCatalogue, MaxMsgs),
      conversationTitle : {TitleSlashes}, userName : {DefaultUserName}, faultAt : {"none"}]
  \cup
     [messages : SmallInputs,
      conversationTitle : Titles, userName : {DefaultUserName, <<"A","n","n">>},
      faultAt : FaultPoints \cup {"none"}]
  \cup
     [messages : {<<mTallRefs, mShort>>, <<mFill, mShort>>},
      conversationTitle : {<<>>, Repeat(<<"?">>, 81)}, userName : {DefaultUserName},
      faultAt : {"none"}]

(* ------------------------------------------------------------------ *)
(* State                                                               *)
(* ------------------------------------------------------------------ *)
VARIABLES
  messages, conversationTitle, userName, faultAt,   \* props and environment
  pc,                  \* position in exportToPDF
  isExporting,         \* the component's state
  everExporting,       \* history: isExporting was set to true
  docCreated,          \* new jsPDF(...) has run
  numPages,            \* doc.internal.pages.length - 1
  curPage,             \* the page draws go to
  yPosition,
  index,               \* 1-based message index
  lines, lineIdx,      \* logical lines of the message and the current one
  parts, partIdx,      \* runs of the current line and the next to pack
  currentLineText, currentLineParts,
  idx,                 \* 1-based reference index
  titleLines, titleIdx,
  pageCount, footerI,
  draws,               \* content draw operations, in order
  footers,             \* footer stamps, in order
  lastCheck,           \* history: the latest checkNewPage call
  checks,              \* history: number of checkNewPage calls
  breaks,              \* history: number of page breaks
  error,               \* the exception caught, "" when none
  thrownAt,            \* history: phase whose step raised the exception
  consoleErrors, toasts,
  filename,            \* the generated filename, <<>> before
  saved,               \* doc.save calls: filename and page count
  run,                 \* number of the invocation under way, from 1
  prev                 \* history: what the invocation before this one left

inputVars == <<messages, conversationTitle, userName, faultAt>>
runVars == <<run, prev, now>>
lineVars == <<lines, lineIdx>>
packVars == <<parts, partIdx, currentLineText, currentLineParts>>
refVars == <<idx, titleLines, titleIdx>>
footVars == <<pageCount, footerI, footers>>
docVars == <<docCreated, numPages, curPage, yPosition, draws, lastCheck, checks, breaks>>
outVars == <<error, thrownAt, consoleErrors, toasts, filename, saved>>
exportVars == <<inputVars, runVars, pc, isExporting, everExporting, index, lineVars,
                packVars, refVars, footVars, docVars, outVars>>

(* ------------------------------------------------------------------ *)
(* State of the pages around the export component                      *)
(* ------------------------------------------------------------------ *)
\* how many times the effect of AuthCallback runs handleCallback
MaxCallbacks == 2

VARIABLES
  cb,                  \* AuthCallback: the runs of handleCallback, by number
  location             \* the wouter location, as setLocation left it

callbackVars == <<cb, location>>

\* a run of handleCallback that has not been started
NoCallback ==
  [pc |-> "idle",
   session |-> [present |-> FALSE, access_token |-> ""],
   sessionError |-> [raised |-> FALSE, message |-> ""],
   response |-> [received |-> FALSE, ok |-> FALSE,
                 body |-> [valid |-> FALSE, error |-> ""]],
   networkError |-> FALSE,
   requests |-> <<>>, redirects |-> <<>>, consoleErrors |-> <<>>]

\* AuthCallback mounted at /auth/callback, its effect not yet run
CallbackIdle ==
  /\ cb = [i \in 1..MaxCallbacks |-> NoCallback]
  /\ location = [path |-> "/auth/callback", error |-> ""]

\* how many auth-state-change events reach the provider's listener
MaxEvents == 3

VARIABLES
  user, session, loading,   \* SupabaseAuthProvider: its three states
  checkSession,             \* position of the async checkSession of the effect
  subscribed,               \* the listener of onAuthStateChange is registered
  events                    \* history: the sessions delivered to the listener

providerVars == <<user, session, loading, checkSession, subscribed, events>>

\* User | null and Session | null
null == "null"
NoSession == [present |-> FALSE, user |-> null]

\* SupabaseAuthProvider after its first render and the run of its effect:
\* checkSession waits for getCurrentUser, the listener is registered
ProviderMounted ==
  /\ user = null /\ session = NoSession /\ loading = TRUE
  /\ checkSession = "awaiting"
  /\ subscribed = TRUE
  /\ events = <<>>

\* how many times the Login form is submitted
MaxSubmits == 2

VARIABLES
  login,               \* Login: mode, fields, loading and error of the form
  search,              \* the redirect parameter of window.location.search, "" when absent
  href,                \* window.location.href when submit assigned it, else ""
  sub,                 \* the call of submit under way
  submits              \* history: the calls of submit that have returned

loginVars == <<login, search, href, sub, submits>>

\* the form as useState initialises it (lines 15-20)
NoForm == [mode |-> "login", email |-> "", name |-> "", password |-> "",
           loading |-> FALSE, error |-> null]

\* no call of submit is under way
NoSubmit == [pc |-> "idle", form |-> NoForm, authCalls |-> 0, backendCalls |-> 0,
             loadingSet |-> FALSE]

\* Login after its first render, opened with the redirect parameter q
LoginIdleAt(q) ==
  /\ login = NoForm
  /\ search = q
  /\ href = ""
  /\ sub = NoSubmit
  /\ submits = <<>>

LoginIdle == LoginIdleAt("")

pageVars == <<callbackVars, providerVars, loginVars>>

\* the pages as they are while the export component is used
PagesIdle == CallbackIdle /\ ProviderMounted /\ LoginIdle

vars == <<exportVars, pageVars>>

\* no invocation came before the first one
NoRun == [messages |-> <<>>, draws |-> <<>>, footers |-> <<>>, numPages |-> 0,
          breaks |-> 0, toasts |-> <<>>, saved |-> <<>>, error |-> "",
          faulted |-> FALSE, everExporting |-> FALSE]

NoCheck == [y |-> 0, requiredSpace |-> 0, ret |-> FALSE, yAfter |-> 0,
            pagesBefore |-> 0, pagesAfter |-> 0]

\* the state of the component before the first invocation on input in
ExportInitOn(in) ==
  /\ messages = in.messages
  /\ conversationTitle = in.conversationTitle
  /\ userName = in.userName
  /\ faultAt = in.faultAt
  /\ run = 1 /\ prev = NoRun /\ now = "1/15/2025"
  /\ pc = "idle"
  /\ isExporting = FALSE /\ everExporting = FALSE
  /\ docCreated = FALSE /\ numPages = 0 /\ curPage = 0
  /\ yPosition = 0
  /\ index = 0
  /\ lines = <<>> /\ lineIdx = 0
  /\ parts = <<>> /\ partIdx = 0
  /\ currentLineText = <<>> /\ currentLineParts = <<>>
  /\ idx = 0 /\ titleLines = <<>> /\ titleIdx = 0
  /\ pageCount = 0 /\ footerI = 0
  /\ draws = <<>> /\ footers = <<>>
  /\ lastCheck = NoCheck /\ checks = 0 /\ breaks = 0
  /\ error = "" /\ thrownAt = ""
  /\ consoleErrors = <<>> /\ toasts = <<>> /\ filename = <<>> /\ saved = <<>>

\* the same, with the pages around the component at rest
InitOn(in) == ExportInitOn(in) /\ PagesIdle

Init == \E in \in Inputs : InitOn(in)

(* ------------------------------------------------------------------ *)
(* Layout helpers                                                      *)
(* ------------------------------------------------------------------ *)
\* mutant: the page is added but the cursor is not reset
checkNewPageNoReset(y, requiredSpace) ==
  IF y + requiredSpace > BottomBound
    THEN [ret |-> TRUE, y |-> y]
    ELSE [ret |-> FALSE, y |-> y]

\* mutant: a block that ends exactly on the bound breaks the page
checkNewPageOffByOne(y, requiredSpace) ==
  IF y + requiredSpace >= BottomBound
    THEN [ret |-> TRUE, y |-> margin]
    ELSE [ret |-> FALSE, y |-> y]

\* mutant: the space asked for is not added to the cursor
checkNewPageIgnoresSpace(y, requiredSpace) ==
  IF y > BottomBound
    THEN [ret |-> TRUE, y |-> margin]
    ELSE [ret |-> FALSE, y |-> y]

\* checkNewPage (lines 73-80): the value returned and the cursor after
checkNewPage(y, requiredSpace) ==
  IF y + requiredSpace > BottomBound
    THEN [ret |-> TRUE, y |-> margin]
    ELSE [ret |-> FALSE, y |-> y]

\* the effect of one checkNewPage call on the document (doc.addPage)
\* and its record in the history variables
Checked(c, requiredSpace) ==
  /\ numPages' = IF c.ret THEN numPages + 1 ELSE numPages
  /\ curPage' = IF c.ret THEN numPages + 1 ELSE curPage
  /\ checks' = checks + 1
  /\ breaks' = IF c.ret THEN breaks + 1 ELSE breaks
  /\ lastCheck' = [y |-> yPosition, requiredSpace |-> requiredSpace, ret |-> c.ret,
                   yAfter |-> c.y, pagesBefore |-> numPages,
                   pagesAfter |-> IF c.ret THEN numPages + 1 ELSE numPages]

Unchecked == UNCHANGED <<numPages, curPage, checks, breaks, lastCheck>>

PageAfter(c) == IF c.ret THEN numPages + 1 ELSE curPage

Draw(kind, page, y, x, text, bold, link) ==
  [kind |-> kind, msg |-> index, line |-> 0, ref |-> 0, page |-> page, y |-> y, x |-> x,
   text |-> text, bold |-> bold, link |-> link]

\* the inner loop that draws the runs of one visual line (lines 193-198)
RECURSIVE RenderLine(_, _, _, _)
RenderLine(ps, page, y, xPos) ==
  IF ps = <<>> THEN <<>>
  ELSE <<[Draw("run", page, y, xPos, Head(ps).text, Head(ps).bold, <<>>)
            EXCEPT !.line = lineIdx]>>
       \o RenderLine(Tail(ps), page, y, xPos + GetTextWidth(Head(ps).text, Head(ps).bold, 10))

\* the phase of rendering a position belongs to
Phase(p) ==
  CASE p = "header" -> "header"
    [] p = "msgHeader" -> "msgHeader"
    [] p \in {"line", "pack"} -> "body"
    [] p \in {"refsLabel", "ref", "refTitle"} -> "refs"
    [] p = "footer" -> "footer"
    [] p = "filename" -> "filename"
    [] OTHER -> "none"

\* mutant: the exception leaves exportToPDF, no handler runs
ThrowUncaught(message, phase) ==
  /\ pc' = "aborted"
  /\ error' = message
  /\ thrownAt' = phase

\* an exception raised inside the try block of lines 59-297
Throw(message, phase) ==
  /\ pc' = "catch"
  /\ error' = message
  /\ thrownAt' = phase

\* the test of the message loop (line 100) with index i, and, on exit,
\* the start of the footer loop (lines 270-271); no page is added here
\* mutant: the unused first entry is counted as a page
PageCountNoDummy(internalPagesLength) == internalPagesLength

\* line 270: doc.internal.pages holds one unused entry before the pages
PageCount(internalPagesLength) == internalPagesLength - 1

\* mutant: every second message is skipped
NextIndexSkips(i) == i + 2

\* line 100: index++
NextIndex(i) == i + 1

LoopTo(i) ==
  /\ index' = i
  /\ IF i <= Len(messages)
       THEN pc' = "msgHeader" /\ UNCHANGED <<pageCount, footerI>>
       ELSE /\ pageCount' = PageCount(numPages + 1)
            /\ footerI' = 1
            /\ pc' = IF 1 <= PageCount(numPages + 1) THEN "footer" ELSE "filename"

(* ------------------------------------------------------------------ *)
(* exportToPDF, lines 52-98                                            *)
(* ------------------------------------------------------------------ *)
\* mutant: the empty-list test is missing
IsEmptyExportNever(msgs) == FALSE

\* mutant: a list of one message is taken for empty
IsEmptyExportOffByOne(msgs) == Len(msgs) <= 1

\* line 53: messages.length === 0
IsEmptyExport(msgs) == Len(msgs) = 0

\* lines 53-56
ExportEmpty ==
  /\ pc = "idle"
  /\ IsEmptyExport(messages)
  /\ toasts' = Append(toasts, [kind |-> "error", text |-> <<EmptyNotice>>])
  /\ pc' = "done"
  /\ UNCHANGED <<inputVars, runVars, pageVars, isExporting, everExporting, index, lineVars, packVars,
                 refVars, footVars, docVars, error, thrownAt, consoleErrors, filename, saved>>

\* mutant: one document object is kept between invocations
SharedDocument ==
  [draws |-> draws, footers |-> footers,
   numPages |-> IF docCreated THEN numPages ELSE 1,
   curPage |-> IF docCreated THEN curPage ELSE 1]

\* lines 60-64: new jsPDF(...), a document of one empty page
NewDocument == [draws |-> <<>>, footers |-> <<>>, numPages |-> 1, curPage |-> 1]

\* lines 58-70
ExportStart ==
  /\ pc = "idle"
  /\ ~IsEmptyExport(messages)
  /\ isExporting' = TRUE /\ everExporting' = TRUE
  /\ docCreated' = TRUE
  /\ numPages' = NewDocument.numPages /\ curPage' = NewDocument.curPage
  /\ draws' = NewDocument.draws /\ footers' = NewDocument.footers
  /\ yPosition' = margin
  /\ pc' = "header"
  /\ UNCHANGED <<inputVars, runVars, pageVars, index, lineVars, packVars, refVars, pageCount, footerI,
                 lastCheck, checks, breaks, outVars>>

\* mutant: an empty title is drawn as it is
HeaderTitleNoFallback(title) ==
  Substring0(IF title = undefined THEN <<>> ELSE title, HeaderTitleMax)

\* lines 90-93: (conversationTitle || "Conversation").substring(0, 80)
HeaderTitle(title) ==
  Substring0(IF title = undefined \/ title = <<>> THEN DefaultTitle ELSE title,
             HeaderTitleMax)

\* lines 82-100
DrawHeader ==
  /\ pc = "header"
  /\ LET head(kind, y, x, text, bold) ==
           [Draw(kind, curPage, y, x, text, bold, <<>>) EXCEPT !.msg = 0]
     IN  draws' = draws \o
           << head("band", 0, 0, <<>>, FALSE),
              head("docTitle", 15, margin * 10, DocTitle, TRUE),
              head("convTitle", 23, margin * 10, HeaderTitle(conversationTitle), FALSE),
              head("exported", 29, margin * 10,
                   <<"Exported: ">> \o formatDate(undefined), FALSE) >>
  /\ yPosition' = HeaderCursor
  /\ LoopTo(1)
  /\ UNCHANGED <<inputVars, runVars, pageVars, isExporting, everExporting, lineVars, packVars, refVars,
                 footers, docCreated, numPages, curPage, lastCheck, checks, breaks, outVars>>

(* ------------------------------------------------------------------ *)
(* The message loop, lines 100-267                                     *)
(* ------------------------------------------------------------------ *)
\* mutant: a time is drawn for every message
HasTimestampAlways(message) == TRUE

\* line 127: if (message.createdAt)
HasTimestamp(message) == message.createdAt # undefined /\ message.createdAt # <<>>

\* lines 101-144: header band, sender, timestamp, content.split
MessageHeader ==
  /\ pc = "msgHeader"
  /\ LET message == messages[index]
         isUser == message.role = "user"
         c == checkNewPage(yPosition, HeaderSpace)
         page == PageAfter(c)
         senderName == IF isUser THEN userName ELSE AssistantLabel
         timeText == formatDate(message.createdAt)
         timeX == (pageWidth - margin - 3) * 10 - GetTextWidth(timeText, FALSE, 8)
     IN  /\ Checked(c, HeaderSpace)
         /\ draws' = draws \o
              << Draw("msgBand", page, c.y, margin * 10, <<>>, FALSE, <<>>),
                 Draw("sender", page, c.y, (margin + 3) * 10, senderName, TRUE, <<>>) >>
              \o (IF HasTimestamp(message)
                    THEN <<Draw("time", page, c.y, timeX, timeText, FALSE, <<>>)>>
                    ELSE <<>>)
         /\ yPosition' = c.y + HeaderAdvance
         /\ IF message.content = undefined
              THEN /\ Throw("TypeError: Cannot read properties of undefined (reading 'split')",
                            "body")
                   /\ UNCHANGED lineVars
              ELSE /\ lines' = SplitLines(message.content)
                   /\ lineIdx' = 1
                   /\ pc' = "line"
                   /\ UNCHANGED <<error, thrownAt>>
  /\ UNCHANGED <<inputVars, runVars, pageVars, isExporting, everExporting, index, packVars, refVars, footVars,
                 docCreated, consoleErrors, toasts, filename, saved>>

\* lines 147-151
BlankLine ==
  /\ pc = "line"
  /\ lineIdx <= Len(lines)
  /\ IsBlank(lines[lineIdx])
  /\ LET c == checkNewPage(yPosition, BlankLineHeight)
     IN  /\ Checked(c, BlankLineHeight)
         /\ yPosition' = c.y + BlankLineHeight
  /\ lineIdx' = lineIdx + 1
  /\ UNCHANGED <<inputVars, runVars, pageVars, pc, isExporting, everExporting, index, lines, packVars, refVars,
                 footVars, docCreated, draws, outVars>>

\* mutant: the visual line is declared outside the loop over the lines
StaleLineParts == currentLineParts

\* line 182: let currentLineParts = [] for each logical line
NewLineParts == <<>>

\* lines 153-182
TokenizeLine ==
  /\ pc = "line"
  /\ lineIdx <= Len(lines)
  /\ ~IsBlank(lines[lineIdx])
  /\ parts' = Tokenize(lines[lineIdx])
  /\ partIdx' = 1
  /\ currentLineText' = <<>>
  /\ currentLineParts' = NewLineParts
  /\ pc' = "pack"
  /\ UNCHANGED <<inputVars, runVars, pageVars, isExporting, everExporting, index, lineVars, refVars, footVars,
                 docVars, outVars>>

\* mutant: the cursor moves on by the height of two lines
AfterLineDouble(y) == y + 2 * LineHeight

\* lines 199 and 221: yPosition += 6 after a visual line
AfterLine(y) == y + LineHeight

\* mutant: no run ever starts a new visual line
OverflowsNever(testWidth) == FALSE

\* mutant: a line that fills the width exactly is broken
OverflowsAtLimit(testWidth) == testWidth >= (maxWidth - WrapInset) * 10

\* line 189: testWidth > maxWidth - 6
Overflows(testWidth) == testWidth > (maxWidth - WrapInset) * 10

\* one iteration of the packing loop, lines 184-210
PackPart ==
  /\ pc = "pack"
  /\ partIdx <= Len(parts)
  /\ LET part == parts[partIdx]
         testText == currentLineText \o part.text
         testWidth == GetTextWidth(testText, FALSE, 10)
     IN  IF Overflows(testWidth)
           THEN /\ IF Len(currentLineParts) > 0
                     THEN LET c == checkNewPage(yPosition, LineHeight)
                          IN  /\ Checked(c, LineHeight)
                              /\ draws' = draws \o RenderLine(currentLineParts, PageAfter(c),
                                                             c.y, (margin + 3) * 10)
                              /\ yPosition' = AfterLine(c.y)
                     ELSE Unchecked /\ UNCHANGED <<draws, yPosition>>
                /\ currentLineText' = part.text
                /\ currentLineParts' = <<part>>
           ELSE /\ currentLineText' = testText
                /\ currentLineParts' = Append(currentLineParts, part)
                /\ Unchecked /\ UNCHANGED <<draws, yPosition>>
  /\ partIdx' = partIdx + 1
  /\ UNCHANGED <<inputVars, runVars, pageVars, pc, isExporting, everExporting, index, lineVars, parts, refVars,
                 footVars, docCreated, outVars>>

\* lines 212-222, and the step to the next logical line
FlushLine ==
  /\ pc = "pack"
  /\ partIdx > Len(parts)
  /\ IF Len(currentLineParts) > 0
       THEN LET c == checkNewPage(yPosition, LineHeight)
            IN  /\ Checked(c, LineHeight)
                /\ draws' = draws \o RenderLine(currentLineParts, PageAfter(c),
                                               c.y, (margin + 3) * 10)
                /\ yPosition' = AfterLine(c.y)
       ELSE Unchecked /\ UNCHANGED <<draws, yPosition>>
  /\ lineIdx' = lineIdx + 1
  /\ pc' = "line"
  /\ UNCHANGED <<inputVars, runVars, pageVars, isExporting, everExporting, index, lines, packVars, refVars,
                 footVars, docCreated, outVars>>

\* mutant: the length of the list is not looked at
HasSearchResultsAnyList(message) == message.searchResults # undefinedList

\* mutant: a message with citations gets a references block
HasSearchResultsOrCitations(message) ==
  \/ message.searchResults # undefinedList /\ Len(message.searchResults) > 0
  \/ Len(message.citations) > 0

\* line 228: message.searchResults && message.searchResults.length > 0
HasSearchResults(message) ==
  message.searchResults # undefinedList /\ Len(message.searchResults) > 0

\* lines 225-228: spacing after the body and the test for references
EndBody ==
  /\ pc = "line"
  /\ lineIdx > Len(lines)
  /\ yPosition' = yPosition + BodySpacing
  /\ pc' = IF HasSearchResults(messages[index]) THEN "refsLabel" ELSE "msgEnd"
  /\ Unchecked
  /\ UNCHANGED <<inputVars, runVars, pageVars, isExporting, everExporting, index, lineVars, packVars, refVars,
                 footVars, docCreated, draws, outVars>>

\* lines 229-237
ReferencesLabel ==
  /\ pc = "refsLabel"
  /\ LET c == checkNewPage(yPosition, RefsLabelSpace)
     IN  /\ Checked(c, RefsLabelSpace)
         /\ draws' = Append(draws, Draw("refsLabel", PageAfter(c), c.y, (margin + 3) * 10,
                                        RefsLabel, TRUE, <<>>))
         /\ yPosition' = c.y + RefsLabelAdvance
  /\ idx' = 1
  /\ pc' = "ref"
  /\ UNCHANGED <<inputVars, runVars, pageVars, isExporting, everExporting, index, lineVars, packVars,
                 titleLines, titleIdx, footVars, docCreated, outVars>>

DigitOf(k) == <<"0","1","2","3","4","5","6","7","8","9">>[k + 1]

\* lines 238-246: space for one reference and its wrapped title
ReferenceStart ==
  /\ pc = "ref"
  /\ idx <= Len(messages[index].searchResults)
  /\ LET result == messages[index].searchResults[idx]
         c == checkNewPage(yPosition, RefSpace)
         titleText == <<DigitOf(idx), ".", " ">> \o result.title
     IN  /\ Checked(c, RefSpace)
         /\ yPosition' = c.y
         /\ titleLines' = wrapText(titleText, maxWidth - TitleInset, 9)
  /\ titleIdx' = 1
  /\ pc' = "refTitle"
  /\ UNCHANGED <<inputVars, runVars, pageVars, isExporting, everExporting, index, lineVars, packVars, idx,
                 footVars, docCreated, draws, outVars>>

\* lines 247-251
ReferenceTitleLine ==
  /\ pc = "refTitle"
  /\ titleIdx <= Len(titleLines)
  /\ LET c == checkNewPage(yPosition, TitleLineHeight)
     IN  /\ Checked(c, TitleLineHeight)
         /\ draws' = Append(draws,
              [Draw("refTitle", PageAfter(c), c.y, (margin + 6) * 10, titleLines[titleIdx],
                    TRUE, <<>>) EXCEPT !.ref = idx])
         /\ yPosition' = c.y + TitleLineHeight
  /\ titleIdx' = titleIdx + 1
  /\ UNCHANGED <<inputVars, runVars, pageVars, pc, isExporting, everExporting, index, lineVars, packVars, idx,
                 titleLines, footVars, docCreated, outVars>>

\* mutant: the URL is drawn under its title without a check of its own
UrlCheckMissing(y) == [ret |-> FALSE, y |-> y]

\* line 258: checkNewPage(4) before the URL line
UrlCheck(y) == checkNewPage(y, UrlSpace)

\* lines 253-261
ReferenceUrl ==
  /\ pc = "refTitle"
  /\ titleIdx > Len(titleLines)
  /\ LET result == messages[index].searchResults[idx]
         c == UrlCheck(yPosition)
     IN  /\ Checked(c, UrlSpace)
         /\ draws' = Append(draws,
              [Draw("url", PageAfter(c), c.y, (margin + 6) * 10, result.url, FALSE, result.url)
                 EXCEPT !.ref = idx])
         /\ yPosition' = c.y + UrlAdvance
  /\ idx' = idx + 1
  /\ pc' = "ref"
  /\ UNCHANGED <<inputVars, runVars, pageVars, isExporting, everExporting, index, lineVars, packVars,
                 titleLines, titleIdx, footVars, docCreated, outVars>>

\* line 262
EndReferences ==
  /\ pc = "ref"
  /\ idx > Len(messages[index].searchResults)
  /\ yPosition' = yPosition + RefsSpacing
  /\ pc' = "msgEnd"
  /\ Unchecked
  /\ UNCHANGED <<inputVars, runVars, pageVars, isExporting, everExporting, index, lineVars, packVars, refVars,
                 footVars, docCreated, draws, outVars>>

\* lines 265-267 and the loop test
EndMessage ==
  /\ pc = "msgEnd"
  /\ yPosition' = yPosition + MessageSpacing
  /\ LoopTo(NextIndex(index))
  /\ Unchecked
  /\ UNCHANGED <<inputVars, runVars, pageVars, isExporting, everExporting, lineVars, packVars, refVars,
                 footers, docCreated, draws, outVars>>

(* ------------------------------------------------------------------ *)
(* Footers, filename, save; lines 269-298                              *)
(* ------------------------------------------------------------------ *)
\* one iteration of lines 271-281
FooterPage ==
  /\ pc = "footer"
  /\ footerI <= pageCount
  /\ curPage' = footerI
  /\ footers' = Append(footers, [page |-> footerI, i |-> footerI, n |-> pageCount,
                                  label |-> ProductLabel, date |-> formatDate(undefined),
                                  y |-> pageHeight - 8])
  /\ footerI' = footerI + 1
  /\ pc' = IF footerI + 1 <= pageCount THEN "footer" ELSE "filename"
  /\ UNCHANGED <<inputVars, runVars, pageVars, isExporting, everExporting, index, lineVars, packVars, refVars,
                 pageCount, docCreated, numPages, yPosition, draws, lastCheck, checks,
                 breaks, outVars>>

\* lines 283-287
GenerateFilename ==
  /\ pc = "filename"
  /\ IF conversationTitle = undefined
       THEN /\ Throw("TypeError: Cannot read properties of undefined (reading 'replace')",
                     "filename")
            /\ UNCHANGED filename
       ELSE /\ filename' = MakeFilename(conversationTitle)
            /\ pc' = "save"
            /\ UNCHANGED <<error, thrownAt>>
  /\ UNCHANGED <<inputVars, runVars, pageVars, isExporting, everExporting, index, lineVars, packVars, refVars,
                 footVars, docVars, consoleErrors, toasts, saved>>

\* line 290
SavePdf ==
  /\ pc = "save"
  /\ saved' = Append(saved, [filename |-> filename, pages |-> numPages])
  /\ pc' = "success"
  /\ UNCHANGED <<inputVars, runVars, pageVars, isExporting, everExporting, index, lineVars, packVars, refVars,
                 footVars, docVars, error, thrownAt, consoleErrors, toasts, filename>>

\* line 291
ToastSuccess ==
  /\ pc = "success"
  /\ toasts' = Append(toasts, [kind |-> "success", text |-> <<SuccessNotice>>])
  /\ pc' = "finally"
  /\ UNCHANGED <<inputVars, runVars, pageVars, isExporting, everExporting, index, lineVars, packVars, refVars,
                 footVars, docVars, error, thrownAt, consoleErrors, filename, saved>>

\* a drawing or measuring call of the phase raises an exception
LibraryThrows ==
  /\ faultAt # "none"
  /\ Phase(pc) = faultAt
  /\ Throw("Error: Invalid arguments passed to jsPDF", Phase(pc))
  /\ UNCHANGED <<inputVars, runVars, pageVars, isExporting, everExporting, index, lineVars, packVars, refVars,
                 footVars, docVars, consoleErrors, toasts, filename, saved>>

\* mutant: the notice carries the text of the exception
CatchNoticeLeaks(err) == <<"Failed to export conversation: ", err>>

\* line 294: the pieces of the notice the catch block shows
CatchNotice(err) == <<FailureNotice>>

\* lines 292-294
CatchError ==
  /\ pc = "catch"
  /\ consoleErrors' = Append(consoleErrors, error)
  /\ toasts' = Append(toasts, [kind |-> "error", text |-> CatchNotice(error)])
  /\ pc' = "finally"
  /\ UNCHANGED <<inputVars, runVars, pageVars, isExporting, everExporting, index, lineVars, packVars, refVars,
                 footVars, docVars, error, thrownAt, filename, saved>>

\* lines 295-297
Finally ==
  /\ pc = "finally"
  /\ isExporting' = FALSE
  /\ pc' = "done"
  /\ UNCHANGED <<inputVars, runVars, pageVars, everExporting, index, lineVars, packVars, refVars,
                 footVars, docVars, outVars>>

Next ==
  \/ ExportEmpty
  \/ ExportStart
  \/ DrawHeader
  \/ MessageHeader
  \/ BlankLine
  \/ TokenizeLine
  \/ PackPart
  \/ FlushLine
  \/ EndBody
  \/ ReferencesLabel
  \/ ReferenceStart
  \/ ReferenceTitleLine
  \/ ReferenceUrl
  \/ EndReferences
  \/ EndMessage
  \/ FooterPage
  \/ GenerateFilename
  \/ SavePdf
  \/ ToastSuccess
  \/ LibraryThrows
  \/ CatchError
  \/ Finally

Spec == Init /\ [][Next]_vars

\* conversations of one, two and three pages
TallInputs == { <<mTallGap>>, <<mTallRefs, mGaps>>, <<mRefs, mTallGap, mTallRefs>> }

FairInputs ==
  [messages : SmallInputs \cup TallInputs,
   conversationTitle : {TitleSlashes, undefined}, userName : {DefaultUserName},
   faultAt : FaultPoints \cup {"none"}]

InitFair == \E in \in FairInputs : InitOn(in)

\* exportToPDF holds no await: once called it runs to its end
FairSpec == InitFair /\ [][Next]_vars /\ WF_vars(Next)

(* ------------------------------------------------------------------ *)
(* A second click on the button, lines 300-306                         *)
(* ------------------------------------------------------------------ *)
LibraryError == "Error: Invalid arguments passed to jsPDF"

WithCitations(msgs, cs) == [i \in DOMAIN msgs |-> [msgs[i] EXCEPT !.citations = cs]]

\* the messages prop at the second click: the same list, or one that
\* differs from it in the citations only
CitationVariants(msgs) ==
  {msgs, WithCitations(msgs, <<>>), WithCitations(msgs, <<UrlY, UrlX>>)}

\* what an invocation leaves behind when it has returned
Outcome ==
  [messages |-> messages, draws |-> draws, footers |-> footers, numPages |-> numPages,
   breaks |-> breaks, toasts |-> toasts, saved |-> saved, error |-> error,
   faulted |-> error = LibraryError, everExporting |-> everExporting]

\* onClick={exportToPDF} on a button that is not disabled (line 305), after
\* the first invocation has returned; the locals of the first call are
\* gone, so nothing of them is carried over on purpose: the variables that
\* stand for them keep their old values until the new call assigns them
ExportAgain ==
  /\ pc = "done"
  /\ run = 1
  /\ ~(isExporting \/ Len(messages) = 0)
  /\ run' = run + 1
  /\ prev' = Outcome
  /\ now' \in Moments
  /\ messages' \in CitationVariants(messages)
  /\ pc' = "idle"
  /\ everExporting' = FALSE
  /\ lastCheck' = NoCheck /\ checks' = 0 /\ breaks' = 0
  /\ error' = "" /\ thrownAt' = ""
  /\ consoleErrors' = <<>> /\ toasts' = <<>> /\ saved' = <<>>
  /\ UNCHANGED <<conversationTitle, userName, faultAt, isExporting, index, lineVars,
                 packVars, refVars, footVars, docCreated, numPages, curPage, yPosition,
                 draws, filename, pageVars>>

RerunInputs ==
     [messages : SeqsUpTo(LayoutCatalogue, MaxMsgs - 1),
      conversationTitle : {TitleSlashes}, userName : {DefaultUserName}, faultAt : {"none"}]
  \cup
     [messages : SmallInputs,
      conversationTitle : {TitleSlashes, undefined}, userName : {DefaultUserName},
      faultAt : {"none", "refs"}]
  \cup
     [messages : {<<Msg("assistant", l, <<>>, undefined, <<UrlX>>)>> : l \in ExtraLines},
      conversationTitle : {TitleSlashes}, userName : {DefaultUserName}, faultAt : {"none"}]

InitRerun == \E in \in RerunInputs : InitOn(in)

NextRerun ==
  \/ Next
  \/ ExportAgain

SpecRerun == InitRerun /\ [][NextRerun]_vars

(* ================================================================== *)
(* Properties                                                          *)
(* ================================================================== *)

\* C1: an export of an empty message list shows the "No messages to
\* export" error notice and does nothing else: no document, no page, no
\* draw, no save, no success notice, and isExporting is never set.
C1_EmptyExportOnlyNotifies ==
  (Len(messages) = 0 /\ pc # "idle") =>
     /\ pc = "done"
     /\ toasts = <<[kind |-> "error", text |-> <<EmptyNotice>>]>>
     /\ ~docCreated /\ numPages = 0
     /\ draws = <<>> /\ footers = <<>>
     /\ saved = <<>>
     /\ ~everExporting /\ ~isExporting

C1_Witness == Len(messages) = 0 /\ pc = "done" /\ Len(toasts) = 1

\* C2: once a rendering step has raised an exception, save is never called
\* and no success notice is shown; when the export has ended, exactly one
\* notice was shown, the generic failure notice, which holds no piece equal
\* to the error text, the error was logged, and isExporting is false.
C2_FailureOutcome ==
  (error # "") =>
     /\ thrownAt \in FaultPoints
     /\ saved = <<>>
     /\ \A i \in 1..Len(toasts) : toasts[i].kind # "success"
     /\ (pc = "done") =>
          /\ Len(toasts) = 1
          /\ toasts[1].kind = "error"
          /\ toasts[1].text = <<FailureNotice>>
          /\ \A k \in 1..Len(toasts[1].text) : toasts[1].text[k] # error
          /\ consoleErrors = <<error>>
          /\ ~isExporting

C2_Witness ==
  pc = "done" /\ error # "" /\ thrownAt = "filename" /\ footers # <<>> /\ Len(toasts) = 1

\* C3 as stated: the cursor never exceeds the usable bottom bound, and a
\* page break resets it to the top margin and adds one to the page index.
C3_Original ==
  /\ yPosition <= BottomBound
  /\ (checks > 0 /\ lastCheck.ret) =>
        (lastCheck.yAfter = margin /\ lastCheck.pagesAfter = lastCheck.pagesBefore + 1)

\* C3 amended: the cursor is within the usable bottom bound whenever
\* content is drawn; the advances made without a check (5 after a URL line
\* checked for 4, 3 after a body, 3 after a references block, 5 between
\* messages) carry it past the bound by at most 9; every page break resets
\* it to the top margin and adds exactly one page, the one then written to.
C3_CursorBound ==
  /\ yPosition <= BottomBound + (UrlAdvance - UrlSpace) + RefsSpacing + MessageSpacing
  /\ \A i \in 1..Len(draws) : draws[i].y <= BottomBound
  /\ (checks > 0 /\ lastCheck.ret) =>
        (lastCheck.yAfter = margin /\ lastCheck.pagesAfter = lastCheck.pagesBefore + 1)
  /\ docCreated => numPages = 1 + breaks
  /\ (pc \in {"msgHeader", "line", "pack", "refsLabel", "ref", "refTitle", "msgEnd"})
        => curPage = numPages

\* a page break triggered after the cursor had passed the bound
C3_Witness == checks > 0 /\ lastCheck.ret /\ lastCheck.y > BottomBound

\* C4: checkNewPage(requiredSpace) returns true iff
\* yPosition + requiredSpace > pageHeight - margin - 10; then it has added
\* exactly one page and set the cursor to the top margin; otherwise the
\* cursor and the page count are unchanged.
C4_CheckNewPage ==
  (checks > 0) =>
     /\ lastCheck.ret <=> (lastCheck.y + lastCheck.requiredSpace > pageHeight - margin - 10)
     /\ lastCheck.ret =>
          (lastCheck.yAfter = margin /\ lastCheck.pagesAfter = lastCheck.pagesBefore + 1)
     /\ ~lastCheck.ret =>
          (lastCheck.yAfter = lastCheck.y /\ lastCheck.pagesAfter = lastCheck.pagesBefore)
     /\ numPages = lastCheck.pagesAfter

\* the smallest overflow: the block ends one past the bound
C4_Witness ==
  /\ checks > 0 /\ lastCheck.ret
  /\ lastCheck.y + lastCheck.requiredSpace = BottomBound + 1
  /\ yPosition = margin + lastCheck.requiredSpace

(* ------------------------------------------------------------------ *)
(* Reading the draw log                                                *)
(* ------------------------------------------------------------------ *)
TextsOf(ds) == Flatten([i \in 1..Len(ds) |-> ds[i].text])

\* the run draws of logical line l of message m, in drawing order
RunsOfLine(m, l) ==
  SelectSeq(draws, LAMBDA d : d.kind = "run" /\ d.msg = m /\ d.line = l)

\* the text of all visual lines of logical line l of message m
LineDrawn(m, l) == TextsOf(RunsOfLine(m, l))

\* s with the markers of every complete pair removed, pairs taken from the
\* left, each closed by the nearest marker that leaves room for a group
RECURSIVE WithoutMarkers(_)
WithoutMarkers(s) ==
  LET marker(k) == k + 1 <= Len(s) /\ s[k] = "*" /\ s[k + 1] = "*"
      close(i) == {j \in (i + 2)..Len(s) : marker(j)}
      open == {i \in 1..Len(s) : marker(i) /\ close(i) # {}}
  IN  IF open = {} THEN s
      ELSE LET i == Min(open)
               j == Min(close(i))
           IN  SubSeq(s, 1, i - 1) \o SubSeq(s, i + 2, j - 1)
               \o WithoutMarkers(SubSeq(s, j + 2, Len(s)))

HasStars(t) == \E k \in 1..(Len(t) - 1) : t[k] = "*" /\ t[k + 1] = "*"

HasPair(t) ==
  \E i \in 1..(Len(t) - 1) : \E j \in (i + 2)..(Len(t) - 1) :
     t[i] = "*" /\ t[i + 1] = "*" /\ t[j] = "*" /\ t[j + 1] = "*"

\* the runs written back with their markers
Marked(ps) ==
  Flatten([i \in 1..Len(ps) |->
             IF ps[i].bold THEN <<"*", "*">> \o ps[i].text \o <<"*", "*">> ELSE ps[i].text])

ExampleLine == <<"a"," ","*","*","b","*","*"," ","c">>
ExampleRuns == << [text |-> <<"a"," ">>, bold |-> FALSE],
                  [text |-> <<"b">>, bold |-> TRUE],
                  [text |-> <<" ","c">>, bold |-> FALSE] >>

\* C5 as stated: the text drawn for a finished logical line is the line.
C5_Original ==
  (pc = "line" /\ lineIdx > 1) => LineDrawn(index, lineIdx - 1) = lines[lineIdx - 1]

\* C5 amended: for a non-blank logical line, the text of all its visual
\* lines, concatenated in drawing order, is the line's text with the
\* emphasis markers of every complete pair removed; no other character is
\* dropped or duplicated.
C5_LineWrapLaw ==
  (pc = "line" /\ lineIdx > 1 /\ ~IsBlank(lines[lineIdx - 1])) =>
     LineDrawn(index, lineIdx - 1) = WithoutMarkers(lines[lineIdx - 1])

\* a line with markers and text after them, wrapped onto two visual lines
C5_Witness ==
  /\ pc = "line" /\ lineIdx > 1
  /\ HasPair(lines[lineIdx - 1])
  /\ ~Tokenize(lines[lineIdx - 1])[Len(Tokenize(lines[lineIdx - 1]))].bold
  /\ LET rs == RunsOfLine(index, lineIdx - 1)
     IN  \E a, b \in 1..Len(rs) : rs[a].y # rs[b].y \/ rs[a].page # rs[b].page

\* C6: the runs of a non-blank logical line are what a left-to-right scan
\* for non-greedy, non-nested marker pairs yields: written back with their
\* markers they give the line; a plain run is never empty and never follows
\* a plain run; an emphasized run stops at the nearest closing marker; the
\* opening marker of a pair is the leftmost one that can be closed; the text
\* after the last pair holds no complete pair; a line with no complete pair
\* is one plain run; "a **b** c" yields ("a ", plain), ("b", emphasized),
\* (" c", plain).
C6_EmphasisParsing ==
  (pc = "pack") =>
     LET line == lines[lineIdx]
         n == Len(parts)
     IN  /\ n >= 1
         /\ Marked(parts) = line
         /\ \A i \in 1..n : ~parts[i].bold => parts[i].text # <<>>
         /\ \A i \in 1..(n - 1) : parts[i].bold \/ parts[i + 1].bold
         /\ \A i \in 1..n : parts[i].bold => ~HasStars(parts[i].text \o <<"*">>)
         /\ \A i \in 1..(n - 1) : ~parts[i].bold => ~HasStars(parts[i].text \o <<"*">>)
         /\ ~parts[n].bold => ~HasPair(parts[n].text)
         /\ ~HasPair(line) => parts = <<[text |-> line, bold |-> FALSE]>>
         /\ (line = ExampleLine) => parts = ExampleRuns

C6_Witness == pc = "pack" /\ lines[lineIdx] = ExampleLine /\ parts = ExampleRuns

\* the sender labels drawn, one per message header
Senders == SelectSeq(draws, LAMBDA d : d.kind = "sender")

\* C7: the draws are in message order (the message index never decreases
\* along the draw log); the k-th message header drawn is that of message k
\* of the input, with that message's sender label; the body text and the
\* reference URLs drawn for message k are those of message k of the input;
\* when the document is saved every message has exactly one header.
C7_MessagesInOrder ==
  /\ \A i \in 1..(Len(draws) - 1) : draws[i].msg <= draws[i + 1].msg
  /\ \A k \in 1..Len(Senders) :
        /\ Senders[k].msg = k
        /\ k <= Len(messages)
        /\ Senders[k].text =
             (IF messages[k].role = "user" THEN userName ELSE AssistantLabel)
  /\ (pc \in {"line", "pack", "refsLabel", "ref", "refTitle", "msgEnd"})
        => Len(Senders) = index
  /\ (pc = "line" /\ lineIdx > 1 /\ ~IsBlank(lines[lineIdx - 1])) =>
        LineDrawn(index, lineIdx - 1)
          = WithoutMarkers(SplitLines(messages[index].content)[lineIdx - 1])
  /\ \A i \in 1..Len(draws) :
        draws[i].kind = "url" =>
          draws[i].link = messages[draws[i].msg].searchResults[draws[i].ref].url
  /\ (saved # <<>>) => Len(Senders) = Len(messages)

\* three different messages rendered and saved
C7_Witness ==
  /\ saved # <<>>
  /\ Len(messages) = 3
  /\ messages[1] # messages[2] /\ messages[2] # messages[3] /\ messages[1] # messages[3]
  /\ Len(Senders) = 3

\* C8: footers are stamped only when every message has been laid out; the
\* k-th footer is on page k and reads "Page k/N | MedChat Medical AI |
\* <date>" with N the number of pages, 1 + the number of page breaks; when
\* the filename is generated and the document saved, every page 1..N has
\* exactly one footer.
C8_Footers ==
  /\ (footers # <<>>) =>
        /\ index > Len(messages)
        /\ pc \in {"footer", "filename", "save", "success", "catch", "finally", "done"}
        /\ numPages = 1 + breaks
  /\ \A k \in 1..Len(footers) :
        footers[k] = [page |-> k, i |-> k, n |-> numPages, label |-> "MedChat Medical AI",
                      date |-> ExportMoment, y |-> pageHeight - 8]
  /\ Len(footers) <= numPages
  /\ (pc \in {"filename", "save", "success"} \/ saved # <<>>) => Len(footers) = numPages
  /\ (saved # <<>>) => saved[1].pages = Len(footers)

C8_Witness == saved # <<>> /\ Len(footers) >= 3 /\ footers[3].n = Len(footers)

\* the props hold strings where the component's types say so
WellFormed ==
  /\ conversationTitle # undefined
  /\ \A m \in 1..Len(messages) : messages[m].content # undefined

\* some step of exportToPDF can be taken: the guards of the actions
StepEnabled ==
  \/ pc \in {"idle", "header", "filename", "save", "success", "catch", "finally"}
  \/ /\ pc \in {"msgHeader", "line", "pack", "refsLabel", "ref", "refTitle", "msgEnd"}
     /\ index \in 1..Len(messages)
  \/ pc = "footer" /\ footerI <= pageCount

\* C9: an export of a non-empty list of well-formed messages, with no
\* fault of the drawing library, raises no exception, can always take its
\* next step until it has ended, calls save exactly once, with a document
\* of at least one page, and then shows the success notice and nothing else.
C9_SuccessfulExport ==
  (Len(messages) > 0 /\ WellFormed /\ faultAt = "none") =>
     /\ error = "" /\ pc # "catch"
     /\ (pc # "done") => StepEnabled
     /\ (pc \in {"success", "finally", "done"}) =>
          (Len(saved) = 1 /\ saved[1].pages >= 1 /\ saved[1].pages = numPages)
     /\ (pc \in {"finally", "done"}) =>
          toasts = <<[kind |-> "success", text |-> <<SuccessNotice>>]>>
     /\ (pc \notin {"success", "finally", "done"}) => saved = <<>>
     /\ (pc \notin {"finally", "done"}) => toasts = <<>>

C9_Witness ==
  /\ pc = "done" /\ Len(messages) > 0 /\ WellFormed /\ faultAt = "none"
  /\ Len(saved) = 1 /\ saved[1].pages >= 2
  /\ Len(toasts) = 1 /\ toasts[1].kind = "success"

\* C10: the filename is "MedChat_" + sanitized title + "_" + ISO date +
\* ".pdf"; the sanitized title has length min(length(title), 50), holds
\* only characters of [A-Za-z0-9_], keeps every letter and digit of the
\* title in place and has "_" in place of every other character.
C10_Filename ==
  (filename # <<>>) =>
     LET title == conversationTitle
         n == IF Len(title) < 50 THEN Len(title) ELSE 50
         san == SubSeq(filename, 9, 8 + n)
     IN  /\ Len(filename) = 8 + n + 1 + 10 + 4
         /\ SubSeq(filename, 1, 8) = <<"M","e","d","C","h","a","t","_">>
         /\ SubSeq(filename, 9 + n, Len(filename))
              = <<"_">> \o IsoDate \o <<".","p","d","f">>
         /\ \A i \in 1..n :
              /\ san[i] \in Lower \cup Upper \cup Digits \cup {"_"}
              /\ IsAlnum(title[i]) => san[i] = title[i]
              /\ ~IsAlnum(title[i]) => san[i] = "_"
         /\ (saved # <<>>) => saved[1].filename = filename

\* a title longer than the cap with characters to replace, saved
C10_Witness ==
  /\ saved # <<>>
  /\ Len(conversationTitle) > 50
  /\ \E i \in 1..50 : ~IsAlnum(conversationTitle[i])
  /\ \E i \in 1..50 : IsAlnum(conversationTitle[i])

(* ------------------------------------------------------------------ *)
(* Reading the references of a message                                 *)
(* ------------------------------------------------------------------ *)
\* message m has been rendered to its end
MessageDone(m) == index > m \/ (index = m /\ pc = "msgEnd")

\* the draws of the references block of message m, in drawing order
RefDraws(m) ==
  SelectSeq(draws, LAMBDA d : d.msg = m /\ d.kind \in {"refsLabel", "refTitle", "url"})

\* the draws of entry k of the references block of message m
EntryDraws(m, k) == SelectSeq(RefDraws(m), LAMBDA d : d.kind # "refsLabel" /\ d.ref = k)

\* the lines of a wrapped title put together again
TitleOf(ds) == JoinWords([i \in 1..Len(ds) |-> ds[i].text])

\* C11: a message that has been rendered has a references block exactly
\* when its searchResults list is present and not empty; the block is the
\* label "References:" followed, for every entry k in list order, by the
\* title lines reading "k. <title>" and then one URL line whose text and
\* whose link target are the url of the entry
C11_ReferencesBlock ==
  \A m \in 1..Len(messages) :
    MessageDone(m) =>
      LET sr == messages[m].searchResults
          rs == RefDraws(m)
      IN  IF sr = undefinedList \/ Len(sr) = 0
            THEN rs = <<>>
            ELSE /\ Len(rs) >= 1
                 /\ rs[1].kind = "refsLabel" /\ rs[1].text = RefsLabel
                 /\ \A i \in 2..Len(rs) :
                      /\ rs[i].kind # "refsLabel"
                      /\ rs[i].ref \in 1..Len(sr)
                      /\ i > 2 => rs[i - 1].ref <= rs[i].ref
                 /\ \A k \in 1..Len(sr) :
                      LET ks == EntryDraws(m, k)
                          n == Len(ks)
                      IN  /\ n >= 2
                          /\ \A j \in 1..(n - 1) : ks[j].kind = "refTitle"
                          /\ TitleOf(SubSeq(ks, 1, n - 1))
                               = <<DigitOf(k), ".", " ">> \o sr[k].title
                          /\ ks[n].kind = "url"
                          /\ ks[n].text = sr[k].url
                          /\ ks[n].link = sr[k].url

\* a message with two references, the second with a title wrapped onto
\* two lines, has been rendered
C11_Witness ==
  \E m \in 1..Len(messages) :
    /\ MessageDone(m) /\ messages[m] = mRefs
    /\ Len(EntryDraws(m, 2)) = 3

(* ------------------------------------------------------------------ *)
(* Comparing two invocations                                           *)
(* ------------------------------------------------------------------ *)
\* the second invocation has returned
SecondReturned == run = 2 /\ pc = "done"

\* neither invocation was cut short by a fault of the drawing library
NoLibraryFault == ~prev.faulted /\ error # LibraryError

\* draws and footers without the date of the export
Undated(ds) ==
  [i \in 1..Len(ds) |-> IF ds[i].kind = "exported" THEN [ds[i] EXCEPT !.text = <<>>]
                                                  ELSE ds[i]]
UndatedFooters(fs) == [i \in 1..Len(fs) |-> [fs[i] EXCEPT !.date = <<>>]]

\* this invocation and the one before it put the same text on the same pages
SameContent ==
  /\ numPages = prev.numPages
  /\ Undated(draws) = Undated(prev.draws)
  /\ UndatedFooters(footers) = UndatedFooters(prev.footers)

\* C12: two invocations on the same title, user name and messages, with
\* the same text measurement, produce the same number of pages and the
\* same sequence of draws, page by page, whatever the day of each; only
\* the date written in the header and the footers may differ
C12_Deterministic ==
  (SecondReturned /\ NoLibraryFault /\ messages = prev.messages) => SameContent

\* the same conversation was exported twice, on different days, to a
\* document of more than one page
C12_Witness ==
  /\ SecondReturned /\ messages = prev.messages
  /\ now # "1/15/2025"
  /\ numPages >= 2
  /\ Len(saved) = 1 /\ Len(prev.saved) = 1
  /\ draws # prev.draws

(* ------------------------------------------------------------------ *)
(* Message timestamps, lines 126-134                                   *)
(* ------------------------------------------------------------------ *)
\* the time strings drawn in the header of message m
TimesOf(m) == SelectSeq(draws, LAMBDA d : d.kind = "time" /\ d.msg = m)

\* the header of message m has been drawn
HeaderDrawn(m) == \E i \in 1..Len(draws) : draws[i].kind = "sender" /\ draws[i].msg = m

\* C13 as stated: a message without createdAt still gets a time string in
\* its header, the export moment
C13_Original ==
  \A m \in 1..Len(messages) :
    (HeaderDrawn(m) /\ messages[m].createdAt = undefined) =>
      /\ Len(TimesOf(m)) = 1
      /\ TimesOf(m)[1].text = ExportMoment

\* C13 amended: a message without createdAt gets no time string at all in
\* its header; a message with createdAt gets exactly one, that timestamp
\* formatted, right-aligned on the line of the sender name. The export
\* moment is written in the document header and the footers only
C13_TimestampOnlyWhenPresent ==
  \A m \in 1..Len(messages) :
    HeaderDrawn(m) =>
      IF messages[m].createdAt = undefined \/ messages[m].createdAt = <<>>
        THEN TimesOf(m) = <<>>
        ELSE /\ Len(TimesOf(m)) = 1
             /\ TimesOf(m)[1].text = <<"en-US:">> \o messages[m].createdAt
             /\ TimesOf(m)[1].text # ExportMoment
             /\ \E i \in 1..(Len(draws) - 1) :
                  /\ draws[i].kind = "sender" /\ draws[i].msg = m
                  /\ draws[i + 1] = TimesOf(m)[1]
                  /\ draws[i + 1].y = draws[i].y /\ draws[i + 1].page = draws[i].page
                  /\ draws[i + 1].x + GetTextWidth(draws[i + 1].text, FALSE, 8)
                       = (pageWidth - margin - 3) * 10

\* a message without createdAt and a message with createdAt have both got
\* their headers
C13_Witness ==
  /\ \E m \in 1..Len(messages) : HeaderDrawn(m) /\ messages[m].createdAt = undefined
  /\ \E m \in 1..Len(messages) : HeaderDrawn(m) /\ messages[m].createdAt = Stamp

(* ------------------------------------------------------------------ *)
(* Citations (README, Export Functionality)                            *)
(* ------------------------------------------------------------------ *)
\* url is the text or the link target of something drawn for message m
UrlRendered(m, url) ==
  \E i \in 1..Len(draws) :
    draws[i].msg = m /\ (draws[i].text = url \/ draws[i].link = url)

\* C14: the saved document includes, for every message, its citations:
\* every URL of the citations list of a message is drawn for that message
C14_CitationsIncluded ==
  Len(saved) = 1 =>
    \A m \in 1..Len(messages) :
      \A k \in 1..Len(messages[m].citations) :
        UrlRendered(m, messages[m].citations[k])

(* ------------------------------------------------------------------ *)
(* Citations and rendering                                             *)
(* ------------------------------------------------------------------ *)
\* the two invocations ran on message lists that differ in the citations
\* of some message and in nothing else
CitationsOnlyDiffer ==
  /\ messages # prev.messages
  /\ WithCitations(messages, <<>>) = WithCitations(prev.messages, <<>>)

C16_Original == ~(run = 2 /\ prev.everExporting /\ everExporting)

\* the number of document header bands in the document
Bands == Len(SelectSeq(draws, LAMBDA d : d.kind = "band"))

\* C16 amended: an invocation that follows another on the same component
\* starts with a document of its own, one empty page, and a cursor of its
\* own at the top margin, and its document never holds what the first
\* drew; what is left of the first document is not looked at. The two
\* share one piece of mutable state, the component's isExporting flag:
\* it is false when the second invocation is started, the second sets it
\* as the first did, and it is false again when the second has returned
C16_OwnDocumentSharedFlag ==
  /\ (run = 2 /\ pc = "idle") => ~isExporting
  /\ (run = 2 /\ pc = "header") =>
       /\ draws = <<>> /\ footers = <<>>
       /\ numPages = 1 /\ curPage = 1
       /\ yPosition = margin
       /\ isExporting /\ prev.everExporting
  /\ (run = 2 /\ pc \notin {"idle", "header"}) =>
       /\ Bands = 1
       /\ Len(footers) <= numPages
  /\ SecondReturned => ~isExporting

\* the second invocation has made its document after the first saved one
\* of several pages
C16_Witness ==
  /\ run = 2 /\ pc = "header"
  /\ Len(prev.saved) = 1 /\ prev.numPages >= 2
  /\ Len(prev.draws) > 4

(* ------------------------------------------------------------------ *)
(* Termination                                                         *)
(* ------------------------------------------------------------------ *)
EmptyOutcome ==
  toasts = <<[kind |-> "error", text |-> <<EmptyNotice>>]>> /\ saved = <<>>
SavedOutcome ==
  toasts = <<[kind |-> "success", text |-> <<SuccessNotice>>]>> /\ Len(saved) = 1
FailedOutcome ==
  toasts = <<[kind |-> "error", text |-> <<FailureNotice>>]>> /\ saved = <<>>

\* exactly one of the three terminal outcomes
OneOutcome ==
  /\ EmptyOutcome \/ SavedOutcome \/ FailedOutcome
  /\ ~(EmptyOutcome /\ SavedOutcome)
  /\ ~(EmptyOutcome /\ FailedOutcome)
  /\ ~(SavedOutcome /\ FailedOutcome)

\* C17: an invocation, which once called takes step after step with
\* nothing to wait for, eventually returns and stays returned, with
\* exactly one of the empty-input notice, the saved document with the
\* success notice, or the failure notice, and with isExporting false
C17_RunsToCompletion == <>[](pc = "done" /\ OneOutcome /\ ~isExporting)

\* the three outcomes, each after a returned invocation
C17_Witness ==
  /\ pc = "done" /\ ~isExporting
  /\ SavedOutcome
  /\ numPages >= 3

(* ------------------------------------------------------------------ *)
(* The document header, lines 82-97                                    *)
(* ------------------------------------------------------------------ *)
HeaderKinds == {"band", "docTitle", "convTitle", "exported"}

\* the conversation title as the header shows it
ShownTitle ==
  IF conversationTitle = undefined \/ conversationTitle = <<>> THEN DefaultTitle
  ELSE SubSeq(conversationTitle, 1, Min({Len(conversationTitle), 80}))

\* C18: nothing is drawn before the document header; the header is the
\* band, the fixed title, the conversation title cut to at most 80
\* characters ("Conversation" when the title is empty) and the export
\* date, all on page 1; no header element is drawn a second time or on
\* another page; the first message starts on page 1 at cursor 42; a page
\* break puts the cursor at the top margin, and what is drawn on a later
\* page is drawn from the top margin down, with no room left for a header
C18_DocumentHeader ==
  /\ pc = "header" => draws = <<>>
  /\ draws # <<>> =>
       /\ Len(draws) >= 4
       /\ \A i \in 1..4 : draws[i].page = 1 /\ draws[i].msg = 0
       /\ draws[1].kind = "band" /\ draws[1].y = 0
       /\ draws[2].kind = "docTitle" /\ draws[2].text = DocTitle
       /\ draws[3].kind = "convTitle" /\ draws[3].text = ShownTitle
       /\ Len(draws[3].text) <= 80
       /\ draws[4].kind = "exported"
       /\ draws[4].text = <<"Exported: ">> \o ExportMoment
       /\ \A i \in 5..Len(draws) :
            /\ draws[i].kind \notin HeaderKinds
            /\ draws[i].msg >= 1
            /\ i = 5 => (draws[i].page = 1 /\ draws[i].y = HeaderCursor)
            /\ draws[i].page \in {draws[i - 1].page, draws[i - 1].page + 1}
            /\ draws[i].page > 1 => draws[i].y >= margin
       /\ lastCheck.ret =>
            /\ lastCheck.yAfter = margin
            /\ curPage = lastCheck.pagesAfter => yPosition >= margin

\* a title of 81 characters was cut in the header of a document of more
\* than one page
C18_Witness ==
  /\ pc = "done" /\ Len(saved) = 1 /\ numPages >= 2
  /\ Len(conversationTitle) = 81
  /\ Len(draws[3].text) = 80

(* ------------------------------------------------------------------ *)
(* Measuring and packing the runs, lines 184-222                       *)
(* ------------------------------------------------------------------ *)
\* the width available to a visual line, in tenths of a millimetre
LineLimit == (maxWidth - WrapInset) * 10

\* the width of runs drawn one after the other, each in its own face
RECURSIVE StyledWidth(_)
StyledWidth(ps) ==
  IF ps = <<>> THEN 0
  ELSE GetTextWidth(Head(ps).text, Head(ps).bold, 10) + StyledWidth(Tail(ps))

\* C19: the fit of a run is decided on widths measured in the face each
\* run is rendered in: a visual line to which a run has been appended is
\* no wider than maxWidth - 6 when its runs are measured bold or normal
\* as they will be drawn
C19_StyledMeasure ==
  (pc = "pack" /\ Len(currentLineParts) >= 2) =>
     StyledWidth(currentLineParts) <= LineLimit

\* the step of the packing loop that takes the next run
PackStep == pc = "pack" /\ partIdx <= Len(parts) /\ partIdx' = partIdx + 1

\* the step that ends a logical line
LineEndStep == pc = "pack" /\ partIdx > Len(parts) /\ pc' = "line"

\* the draws a step has added
Added == SubSeq(draws', Len(draws) + 1, Len(draws'))

\* the runs ps, and nothing else, have been added as one visual line
FlushedAs(ps) ==
  /\ Len(draws') = Len(draws) + Len(ps)
  /\ SubSeq(draws', 1, Len(draws)) = draws
  /\ \A i \in 1..Len(ps) :
       /\ Added[i].kind = "run"
       /\ Added[i].text = ps[i].text /\ Added[i].bold = ps[i].bold
       /\ Added[i].page = Added[1].page /\ Added[i].y = Added[1].y
       /\ i > 1 => Added[i].x >= Added[i - 1].x

\* C20: the runs of a logical line are taken from left to right; a run is
\* appended to the visual line exactly when the accumulated text with the
\* text of the run, measured as the code measures it, is not wider than
\* maxWidth - 6; otherwise the visual line, if it holds a run, is drawn
\* and the run starts the next visual line. When the logical line ends,
\* the runs drawn for it are the runs of the tokenizer in tokenizer
\* order, on visual lines that follow one another down the pages
C20_GreedyPacking ==
  [][ /\ PackStep =>
           LET part == parts[partIdx]
               width == GetTextWidth(currentLineText \o part.text, FALSE, 10)
           IN  IF width <= LineLimit
                 THEN /\ currentLineParts' = Append(currentLineParts, part)
                      /\ draws' = draws
                 ELSE /\ currentLineParts' = <<part>>
                      /\ IF currentLineParts = <<>> THEN draws' = draws
                                                    ELSE FlushedAs(currentLineParts)
      /\ LineEndStep =>
           LET rs == SelectSeq(draws', LAMBDA d : d.kind = "run" /\ d.msg = index
                                                  /\ d.line = lineIdx)
           IN  /\ Len(rs) = Len(parts)
               /\ \A i \in 1..Len(rs) :
                    /\ rs[i].text = parts[i].text /\ rs[i].bold = parts[i].bold
                    /\ i > 1 => \/ rs[i].page > rs[i - 1].page
                                \/ rs[i].page = rs[i - 1].page /\ rs[i].y > rs[i - 1].y
                                \/ /\ rs[i].page = rs[i - 1].page /\ rs[i].y = rs[i - 1].y
                                   /\ rs[i].x >= rs[i - 1].x
    ]_vars

\* a visual line has been drawn because a run did not fit, and a later
\* run of the same logical line has been appended to the run that
\* started the next visual line
C20_Witness ==
  /\ pc = "pack" /\ Len(currentLineParts) >= 2
  /\ RunsOfLine(index, lineIdx) # <<>>

(* ------------------------------------------------------------------ *)
(* The cursor around a visual line, lines 189-222                      *)
(* ------------------------------------------------------------------ *)
\* a step that draws a visual line of message body text
DrawsVisualLine == Len(draws') > Len(draws) /\ draws'[Len(draws')].kind = "run"

\* C21: a step that draws a visual line of body text first calls
\* checkNewPage for one line height, 6, at the cursor it found, draws all
\* runs of the line at the cursor and on the page that call left, and then
\* moves the cursor on by the same 6 on that page
C21_LineCheckAndAdvance ==
  [][ DrawsVisualLine =>
        /\ checks' = checks + 1
        /\ lastCheck'.requiredSpace = LineHeight
        /\ lastCheck'.y = yPosition
        /\ \A i \in 1..Len(Added) :
             /\ Added[i].kind = "run"
             /\ Added[i].y = lastCheck'.yAfter
             /\ Added[i].page = lastCheck'.pagesAfter
        /\ curPage' = lastCheck'.pagesAfter
        /\ yPosition' = lastCheck'.yAfter + 6
    ]_vars

\* a visual line has been drawn at the top of a page the check before it
\* added, and the cursor stands 6 below it
C21_Witness ==
  /\ draws # <<>> /\ draws[Len(draws)].kind = "run"
  /\ lastCheck.ret /\ lastCheck.requiredSpace = LineHeight
  /\ draws[Len(draws)].y = margin /\ draws[Len(draws)].page = curPage
  /\ yPosition = margin + 6

(* ------------------------------------------------------------------ *)
(* Runs wider than the line                                            *)
(* ------------------------------------------------------------------ *)
\* text measures more than the wrap limit
Wide(text) == GetTextWidth(text, FALSE, 10) > LineLimit

\* the run draws on the visual line of draw d
VisualLineOf(d) ==
  SelectSeq(draws, LAMBDA e : e.kind = "run" /\ e.msg = d.msg /\ e.line = d.line
                              /\ e.page = d.page /\ e.y = d.y)

\* C22 as stated: a run wider than the wrap limit is alone on its visual
\* line, and the visual line drawn just before it is not an empty one
C22_Original ==
  \A i \in 1..Len(draws) :
    (draws[i].kind = "run" /\ Wide(draws[i].text)) =>
       /\ VisualLineOf(draws[i]) = <<draws[i]>>
       /\ (i > 1 /\ draws[i - 1].kind = "run" /\ draws[i - 1].msg = draws[i].msg
                 /\ draws[i - 1].line = draws[i].line)
            => TextsOf(VisualLineOf(draws[i - 1])) # <<>>

\* C22 amended: a run wider than the wrap limit is never split and is
\* alone on its visual line, which starts at the left inset. When it is
\* the first run of its logical line nothing is drawn and the cursor does
\* not move before it; when runs were accumulated before it they are
\* drawn as a visual line first, and that line shows no text when all of
\* them are empty, as the run of "****" is
C22_WideRunAlone ==
  [][ /\ (PackStep /\ Wide(parts[partIdx].text)) =>
           /\ currentLineParts' = <<parts[partIdx]>>
           /\ currentLineParts = <<>> =>
                (draws' = draws /\ yPosition' = yPosition /\ checks' = checks)
           /\ currentLineParts # <<>> => FlushedAs(currentLineParts)
      /\ DrawsVisualLine =>
           \A i \in 1..Len(Added) :
             Wide(Added[i].text) =>
               /\ Len(Added) = 1
               /\ Added[i].x = (margin + 3) * 10
               /\ \E k \in 1..Len(parts) : parts[k].text = Added[i].text
    ]_vars

\* a run wider than the line has been drawn after a visual line that
\* shows no text
C22_Witness ==
  \E i \in 2..Len(draws) :
    /\ draws[i].kind = "run" /\ Wide(draws[i].text)
    /\ draws[i - 1].kind = "run" /\ draws[i - 1].text = <<>>
    /\ draws[i - 1].line = draws[i].line
    /\ draws[i - 1].y + LineHeight = draws[i].y

(* ------------------------------------------------------------------ *)
(* Blank lines, lines 146-151                                          *)
(* ------------------------------------------------------------------ *)
\* the logical line at hand is empty or holds white space only
AtBlankLine ==
  /\ pc = "line" /\ lineIdx <= Len(lines)
  /\ \A i \in 1..Len(lines[lineIdx]) : lines[lineIdx][i] \in {" ", "\t"}

\* the logical line just left was empty or held white space only
AfterBlankLine ==
  /\ pc = "line" /\ lineIdx > 1 /\ lineIdx - 1 <= Len(lines)
  /\ \A i \in 1..Len(lines[lineIdx - 1]) : lines[lineIdx - 1][i] \in {" ", "\t"}

\* C23 as stated: a blank line moves the cursor by the line height of a
\* visual text line, 6, after a check for that height
C23_Original ==
  AfterBlankLine =>
     /\ lastCheck.requiredSpace = LineHeight
     /\ yPosition = lastCheck.yAfter + LineHeight

\* C23 amended: an empty or whitespace-only logical line is not
\* tokenized and draws nothing; unless the library fails, it calls
\* checkNewPage for 5 and moves the cursor on by 5, one less than the 6
\* of a visual line of text
C23_BlankLineSpacer ==
  [][ (AtBlankLine /\ (pc' # pc \/ lineIdx' # lineIdx) /\ pc' # "catch") =>
        /\ pc' = "line" /\ lineIdx' = lineIdx + 1
        /\ draws' = draws
        /\ parts' = parts /\ currentLineParts' = currentLineParts
        /\ checks' = checks + 1
        /\ lastCheck'.requiredSpace = 5 /\ lastCheck'.y = yPosition
        /\ yPosition' = lastCheck'.yAfter + 5
        /\ yPosition' < lastCheck'.yAfter + LineHeight
    ]_vars

\* a blank line has been passed at the bottom of a page: the check for 5
\* broke the page and the cursor stands 5 below the top margin
C23_Witness ==
  /\ AfterBlankLine
  /\ lastCheck.ret /\ lastCheck.requiredSpace = 5
  /\ yPosition = margin + 5

(* ------------------------------------------------------------------ *)
(* Space for the lines of a reference, lines 247-261                   *)
(* ------------------------------------------------------------------ *)
\* a step that draws one line of kind k
DrawsOne(k) == Len(draws') = Len(draws) + 1 /\ draws'[Len(draws')].kind = k

\* the check a step has made, for space h, did what checkNewPage does
CheckedFor(h) ==
  /\ checks' = checks + 1
  /\ lastCheck'.requiredSpace = h /\ lastCheck'.y = yPosition
  /\ lastCheck'.ret = (yPosition + h > BottomBound)
  /\ draws'[Len(draws')].y = lastCheck'.yAfter
  /\ draws'[Len(draws')].page = lastCheck'.pagesAfter

\* C24: every title line of a reference is drawn after a check of its
\* own for 5, and the URL line after a check of its own for 4, each of
\* which can break the page; so the URL of a reference can stand on the
\* page after the one its title is on
C24_SeparateChecks ==
  [][ /\ DrawsOne("refTitle") => (CheckedFor(5) /\ yPosition' = lastCheck'.yAfter + 5)
      /\ DrawsOne("url") => (CheckedFor(4) /\ yPosition' = lastCheck'.yAfter + 5)
    ]_vars

\* the title of a reference is on one page and its URL at the top of the
\* next
C24_Witness ==
  \E i \in 2..Len(draws) :
    /\ draws[i].kind = "url" /\ draws[i - 1].kind = "refTitle"
    /\ draws[i].msg = draws[i - 1].msg /\ draws[i].ref = draws[i - 1].ref
    /\ draws[i].page = draws[i - 1].page + 1
    /\ draws[i].y = margin

(* ------------------------------------------------------------------ *)
(* AuthCallback.tsx: handleCallback, lines 9-51                        *)
(* ------------------------------------------------------------------ *)
\* messages of the errors that reach the catch block; "" is an error
\* without a message
SessionMessages == {"", "Session expired"}
NetworkMessage == "Failed to fetch"
ParseMessage == "Unexpected end of JSON input"
NoTokenMessage == "No access token received"
NoSessionMessage == "Failed to create session"
FallbackMessage == "Authentication failed"

Tokens == {"", "jwt-1", "jwt-2"}

\* what supabase.auth.getSession() settles with (line 13)
SessionResults ==
     [rejected : {TRUE}, message : SessionMessages,
      session : {NoCallback.session}, sessionError : {NoCallback.sessionError}]
  \cup
     [rejected : {FALSE}, message : {""},
      session : {NoCallback.session},
      sessionError : [raised : {TRUE}, message : SessionMessages]]
  \cup
     [rejected : {FALSE}, message : {""},
      session : {NoCallback.session} \cup [present : {TRUE}, access_token : Tokens],
      sessionError : {NoCallback.sessionError}]

\* the bodies a response can carry: not JSON, JSON without an error
\* field, JSON with one
Bodies == { [valid |-> FALSE, error |-> ""], [valid |-> TRUE, error |-> ""],
            [valid |-> TRUE, error |-> "Invalid token"] }

\* what fetch settles with (lines 24-31)
FetchResults ==
     [rejected : {TRUE}, ok : {FALSE}, body : {[valid |-> FALSE, error |-> ""]}]
  \cup
     [rejected : {FALSE}, ok : BOOLEAN, body : Bodies]

\* encodeURIComponent on the messages that occur
EncodeURIComponent(m) ==
  CASE m = "Session expired" -> "Session%20expired"
    [] m = "Failed to fetch" -> "Failed%20to%20fetch"
    [] m = "Unexpected end of JSON input" -> "Unexpected%20end%20of%20JSON%20input"
    [] m = "No access token received" -> "No%20access%20token%20received"
    [] m = "Failed to create session" -> "Failed%20to%20create%20session"
    [] m = "Authentication failed" -> "Authentication%20failed"
    [] m = "Invalid token" -> "Invalid%20token"
    [] OTHER -> m

\* lines 43-47: the catch block, for an error with the given message
CatchCallback(i, message) ==
  LET target == [path |-> "/login",
                 error |-> EncodeURIComponent(IF message = "" THEN FallbackMessage
                                                              ELSE message)]
  IN  /\ location' = target
      /\ cb' = [cb EXCEPT ![i].pc = "done",
                          ![i].redirects = Append(@, target),
                          ![i].consoleErrors = Append(@, message)]

\* mutant: any session will do, its token is not looked at
HasAccessTokenAnySession(sess) == sess.present

\* line 19: session?.access_token
HasAccessToken(sess) == sess.present /\ sess.access_token # ""

\* lines 9-13 and 50: the effect calls handleCallback, which awaits getSession
StartCallback(i) ==
  /\ cb[i].pc = "idle"
  /\ i > 1 => cb[i - 1].pc # "idle"
  /\ cb' = [cb EXCEPT ![i].pc = "getSession"]
  /\ UNCHANGED <<exportVars, providerVars, loginVars, location>>

\* lines 13-31: getSession settles; the token is sent to the backend
SessionSettles(i) ==
  /\ cb[i].pc = "getSession"
  /\ \E r \in SessionResults :
       IF r.rejected THEN CatchCallback(i, r.message)
       ELSE IF r.sessionError.raised
         THEN /\ location' = [path |-> "/login",
                              error |-> EncodeURIComponent(
                                          IF r.sessionError.message = ""
                                            THEN FallbackMessage
                                            ELSE r.sessionError.message)]
              /\ cb' = [cb EXCEPT ![i].pc = "done",
                                  ![i].sessionError = r.sessionError,
                                  ![i].redirects = Append(@, location'),
                                  ![i].consoleErrors = Append(@, r.sessionError.message)]
       ELSE IF ~HasAccessToken(r.session)
         THEN /\ location' = [path |-> "/login",
                              error |-> EncodeURIComponent(NoTokenMessage)]
              /\ cb' = [cb EXCEPT ![i].pc = "done",
                                  ![i].session = r.session,
                                  ![i].redirects = Append(@, location'),
                                  ![i].consoleErrors = Append(@, NoTokenMessage)]
       ELSE /\ cb' = [cb EXCEPT ![i].pc = "fetch",
                                ![i].session = r.session,
                                ![i].requests =
                                   Append(@, [path |-> "/api/auth/supabase",
                                              accessToken |-> r.session.access_token])]
            /\ UNCHANGED location
  /\ UNCHANGED <<exportVars, providerVars, loginVars>>

\* lines 24-38: fetch settles; the body is read in both branches
FetchSettles(i) ==
  /\ cb[i].pc = "fetch"
  /\ \E r \in FetchResults :
       IF r.rejected
         THEN /\ location' = [path |-> "/login",
                              error |-> EncodeURIComponent(NetworkMessage)]
              /\ cb' = [cb EXCEPT ![i].pc = "done",
                                  ![i].networkError = TRUE,
                                  ![i].redirects = Append(@, location'),
                                  ![i].consoleErrors = Append(@, NetworkMessage)]
         ELSE /\ cb' = [cb EXCEPT ![i].pc = IF r.ok THEN "okJson" ELSE "errorJson",
                                  ![i].response = [received |-> TRUE, ok |-> r.ok,
                                                   body |-> r.body]]
              /\ UNCHANGED location
  /\ UNCHANGED <<exportVars, providerVars, loginVars>>

\* lines 34-47: response.json() settles
JsonSettles(i) ==
  /\ cb[i].pc \in {"okJson", "errorJson"}
  /\ LET body == cb[i].response.body
     IN  IF ~body.valid THEN CatchCallback(i, ParseMessage)
         ELSE IF cb[i].pc = "errorJson"
           THEN CatchCallback(i, IF body.error = "" THEN NoSessionMessage ELSE body.error)
         ELSE /\ location' = [path |-> "/chat", error |-> ""]
              /\ cb' = [cb EXCEPT ![i].pc = "done",
                                  ![i].redirects = Append(@, location')]
  /\ UNCHANGED <<exportVars, providerVars, loginVars>>

NextCallback ==
  \E i \in 1..MaxCallbacks :
    \/ StartCallback(i)
    \/ SessionSettles(i)
    \/ FetchSettles(i)
    \/ JsonSettles(i)

\* the export component is not on the callback page
ExportAbsent ==
  InitOn([messages |-> <<>>, conversationTitle |-> undefined,
          userName |-> DefaultUserName, faultAt |-> "none"])

InitCallback == ExportAbsent

SpecCallback == InitCallback /\ [][NextCallback]_vars

\* C25: in every run of handleCallback, a request goes to
\* /api/auth/supabase only after getSession gave, without error, a
\* session with a non-empty access token, and carries that token; the
\* redirect to /chat is made only after the backend answered ok; a run
\* that met a session error, a missing token, a network error or an
\* answer that is not ok has redirected to /login with an error
\* parameter; a run that has ended has redirected exactly once, a run
\* that has not ended not at all
C25_CallbackProtocol ==
  \A i \in 1..MaxCallbacks :
    LET r == cb[i]
        failed == \/ r.sessionError.raised
                  \/ r.pc = "done" /\ ~r.session.present
                  \/ r.pc = "done" /\ r.session.access_token = ""
                  \/ r.networkError
                  \/ r.pc = "done" /\ r.response.received /\ ~r.response.ok
    IN  /\ r.requests # <<>> =>
             /\ Len(r.requests) = 1
             /\ r.session.present /\ r.session.access_token # ""
             /\ ~r.sessionError.raised
             /\ r.requests[1] = [path |-> "/api/auth/supabase",
                                 accessToken |-> r.session.access_token]
        /\ r.response.received => r.requests # <<>>
        /\ \A k \in 1..Len(r.redirects) :
             r.redirects[k].path = "/chat" =>
               (r.response.received /\ r.response.ok /\ r.requests # <<>>)
        /\ failed =>
             /\ r.pc = "done"
             /\ r.redirects[1].path = "/login" /\ r.redirects[1].error # ""
        /\ r.pc = "done" => Len(r.redirects) = 1
        /\ r.pc # "done" => r.redirects = <<>>
        /\ \A k \in 1..Len(r.redirects) :
             /\ r.redirects[k].path \in {"/chat", "/login"}
             /\ r.redirects[k].path = "/chat" => r.redirects[k].error = ""

\* one run has been sent to /login for an answer that was not ok, and
\* another has gone to /chat after an ok answer
C25_Witness ==
  /\ cb[1].pc = "done" /\ cb[1].response.received /\ ~cb[1].response.ok
  /\ cb[1].redirects[1].error = "Invalid%20token"
  /\ cb[2].pc = "done" /\ cb[2].redirects[1].path = "/chat"
  /\ location.path = "/chat"

(* ------------------------------------------------------------------ *)
(* Content and the footer zone                                         *)
(* ------------------------------------------------------------------ *)
\* the height checkNewPage is asked for before a draw of the kind
Reserved(kind) ==
  CASE kind \in {"msgBand", "sender", "time"} -> HeaderSpace
    [] kind = "run" -> LineHeight
    [] kind = "refsLabel" -> RefsLabelSpace
    [] kind = "refTitle" -> TitleLineHeight
    [] kind = "url" -> UrlSpace
    [] OTHER -> 0

ContentKinds == {"msgBand", "sender", "time", "run", "refsLabel", "refTitle", "url"}

\* C26: every draw of message content (header band with sender and time,
\* visual line, "References:" label, reference title line, URL line) is
\* made at a cursor y with y + the height reserved for it at most
\* pageHeight - margin - 10 = 272, on a page of the document; the footer
\* of every page is written at pageHeight - 8 = 289, below all of it
C26_ContentAboveFooter ==
  /\ \A i \in 1..Len(draws) :
       draws[i].kind \in ContentKinds =>
         /\ draws[i].y >= margin
         /\ draws[i].y + Reserved(draws[i].kind) <= pageHeight - margin - 10
         /\ draws[i].y + Reserved(draws[i].kind) < pageHeight - 8
         /\ draws[i].page \in 1..numPages
  /\ \A k \in 1..Len(footers) : footers[k].y = pageHeight - 8

\* a document of several pages has its footers, and some content was
\* drawn with no more than 4 to spare above the bound
C26_Witness ==
  /\ numPages >= 2 /\ Len(footers) = numPages
  /\ \E i \in 1..Len(draws) :
       /\ draws[i].kind \in ContentKinds
       /\ draws[i].y + Reserved(draws[i].kind) >= pageHeight - margin - 10 - 4

(* ------------------------------------------------------------------ *)
(* A message header and the start of its body                          *)
(* ------------------------------------------------------------------ *)
\* the band of the header of message m, and the runs of its body
BandsOf(m) == SelectSeq(draws, LAMBDA d : d.kind = "msgBand" /\ d.msg = m)
RunsOf(m) == SelectSeq(draws, LAMBDA d : d.kind = "run" /\ d.msg = m)

\* the first logical line of message m is not blank
FirstLineNonBlank(m) ==
  /\ messages[m].content # undefined
  /\ ~IsBlank(SplitLines(messages[m].content)[1])

\* C27: for every message whose first logical line is non-blank, the
\* header band and the first visual line of the body are drawn on the
\* same page
C27_HeaderWithBody ==
  \A m \in 1..Len(messages) :
    (FirstLineNonBlank(m) /\ Len(BandsOf(m)) > 0 /\ Len(RunsOf(m)) > 0) =>
      RunsOf(m)[1].page = BandsOf(m)[1].page

(* ------------------------------------------------------------------ *)
(* Lines without a complete marker pair                                *)
(* ------------------------------------------------------------------ *)
\* the line holds an opening "**" and, after it, a closing "**"
CompletePair(line) ==
  \E i, j \in 0..Len(line) : StarsAt(line, i) /\ StarsAt(line, j) /\ j >= i + 2

\* the draws made for logical line l of message m
LineDraws(ds, m, l) == SelectSeq(ds, LAMBDA d : d.kind = "run" /\ d.msg = m /\ d.line = l)

\* the logical line being packed is non-blank and has no complete pair
PlainLine == pc = "pack" /\ ~CompletePair(lines[lineIdx])

\* C28: a non-blank logical line without a complete "**...**" pair is
\* tokenized into one normal run holding the whole line; packing it draws
\* nothing before the line ends, and the step that ends the line draws
\* that run as exactly one visual line, after one check for 6, whatever
\* its width, and leaves the cursor 6 below the line
C28_PlainLineOneVisualLine ==
  [][ PlainLine =>
        /\ parts = <<[text |-> lines[lineIdx], bold |-> FALSE]>>
        /\ PackStep => (draws' = draws /\ yPosition' = yPosition)
        /\ LineEndStep =>
             /\ Len(draws') = Len(draws) + 1
             /\ Len(LineDraws(draws', index, lineIdx)) = 1
             /\ draws'[Len(draws')] = LineDraws(draws', index, lineIdx)[1]
             /\ draws'[Len(draws')].text = lines[lineIdx]
             /\ ~draws'[Len(draws')].bold
             /\ checks' = checks + 1
             /\ lastCheck'.requiredSpace = 6
             /\ draws'[Len(draws')].y = lastCheck'.yAfter
             /\ yPosition' = lastCheck'.yAfter + 6
             /\ yPosition' = IF lastCheck'.ret THEN margin + 6 ELSE yPosition + 6
    ]_vars

\* a line wider than the wrap limit that holds an unclosed "**" has been
\* drawn as one visual line of one run
C28_Witness ==
  /\ pc = "line" /\ lineIdx > 1
  /\ LET l == lines[lineIdx - 1]
     IN  /\ ~IsBlank(l) /\ ~CompletePair(l)
         /\ \E k \in 0..Len(l) : StarsAt(l, k)
         /\ GetTextWidth(l, FALSE, 10) > LineLimit
         /\ Len(LineDraws(draws, index, lineIdx - 1)) = 1
         /\ LineDraws(draws, index, lineIdx - 1)[1].text = l

(* ------------------------------------------------------------------ *)
(* SupabaseAuthProvider: the effect of lines 31-60                     *)
(* ------------------------------------------------------------------ *)
Users == {"u1", "u2"}

\* what getCurrentUser settles with: { user } with a user or null, or a
\* rejection
CurrentUserResults ==
  [rejected : {FALSE}, user : Users \cup {null}] \cup {[rejected |-> TRUE, user |-> null]}

\* the session argument of an auth-state-change event
EventSessions == {NoSession} \cup {[present |-> TRUE, user |-> u] : u \in Users}

\* session?.user ?? null
UserOf(s) == IF s.present THEN s.user ELSE null

\* lines 35-38: if (user) setUser(user)
CheckedUser(r) == IF ~r.rejected /\ r.user # null THEN r.user ELSE user

\* getCurrentUser settles and checkSession runs to its end (lines 35-43);
\* the state setters of an unmounted component do nothing
CheckSettles ==
  /\ checkSession = "awaiting"
  /\ \E r \in CurrentUserResults :
       /\ checkSession' = IF r.rejected THEN "logged error" ELSE "returned"
       /\ IF subscribed
            THEN user' = CheckedUser(r) /\ loading' = FALSE
            ELSE UNCHANGED <<user, loading>>
  /\ UNCHANGED <<exportVars, callbackVars, loginVars, session, subscribed, events>>

\* the listener registered in line 49 is called (lines 50-52)
AuthEvent ==
  /\ subscribed
  /\ Len(events) < MaxEvents
  /\ \E s \in EventSessions :
       /\ session' = s
       /\ user' = UserOf(s)
       /\ events' = Append(events, s)
  /\ loading' = FALSE
  /\ UNCHANGED <<exportVars, callbackVars, loginVars, checkSession, subscribed>>

\* the cleanup of the effect (lines 55-59)
Unmount ==
  /\ subscribed
  /\ subscribed' = FALSE
  /\ UNCHANGED <<exportVars, callbackVars, loginVars, user, session, loading, checkSession,
                 events>>

NextProvider == CheckSettles \/ AuthEvent \/ Unmount

InitProvider == ExportAbsent

SpecProvider == InitProvider /\ [][NextProvider]_vars

\* C29: once an auth-state-change event has been delivered, the user of
\* the context is the user of the session of the latest event, null when
\* that session is null, whenever the initial check settles
C29_UserFollowsEvents ==
  events # <<>> => user = UserOf(events[Len(events)])

(* ------------------------------------------------------------------ *)
(* Login: the form, submit (lines 56-110) and handleKeyPress           *)
(* ------------------------------------------------------------------ *)
\* what the user types into a field: nothing or something
FieldValues == {"", "x"}

\* ?redirect=... of the page's URL, "" when there is none
RedirectParams == {"", "/history"}

RequiredMessage == "Email and password are required"
NameMessage == "Name is required for registration"
UnknownMessage == "Unknown error"

\* what signInWithEmail / signUpWithEmail settle with: { error } with or
\* without an error (whose message can be empty), or a rejection
SignResults ==
  [rejected : {FALSE}, failed : {FALSE}, message : {""}]
    \cup [rejected : {FALSE}, failed : {TRUE}, message : {"Invalid login credentials", ""}]
    \cup [rejected : {TRUE}, failed : {FALSE}, message : {"Failed to fetch"}]

\* what getIdToken settles with: a token, null, or a rejection
TokenResults ==
  [rejected : {FALSE}, token : {"t", null}, message : {""}]
    \cup [rejected : {TRUE}, token : {null}, message : {"Failed to fetch"}]

\* what api.auth.supabaseAuth settles with
BackendResults ==
  [rejected : {FALSE}, message : {""}]
    \cup [rejected : {TRUE}, message : {"Failed to create session", ""}]

\* mutant: the name is not asked for
ValidationErrorNoName(form) ==
  IF form.email = "" \/ form.password = "" THEN RequiredMessage ELSE null

\* lines 60-68: the message of the failed validation, null when it passes
ValidationError(form) ==
  IF form.email = "" \/ form.password = "" THEN RequiredMessage
  ELSE IF form.mode = "register" /\ form.name = "" THEN NameMessage
  ELSE null

\* the page is shown and its controls are enabled (disabled={loading})
Enabled == href = "" /\ ~login.loading

\* onChange of the three inputs; the name input exists in register mode
SetEmail ==
  /\ Enabled
  /\ \E v \in FieldValues : login' = [login EXCEPT !.email = v]
  /\ UNCHANGED <<exportVars, callbackVars, providerVars, search, href, sub, submits>>

SetPassword ==
  /\ Enabled
  /\ \E v \in FieldValues : login' = [login EXCEPT !.password = v]
  /\ UNCHANGED <<exportVars, callbackVars, providerVars, search, href, sub, submits>>

SetName ==
  /\ Enabled /\ login.mode = "register"
  /\ \E v \in FieldValues : login' = [login EXCEPT !.name = v]
  /\ UNCHANGED <<exportVars, callbackVars, providerVars, search, href, sub, submits>>

\* lines 284-287: the switch between sign-in and registration
ToggleMode ==
  /\ Enabled
  /\ login' = [login EXCEPT !.mode = IF @ = "login" THEN "register" ELSE "login",
                            !.error = null]
  /\ UNCHANGED <<exportVars, callbackVars, providerVars, search, href, sub, submits>>

\* email or password is empty, or the name is empty in register mode
Invalid(form) ==
  form.email = "" \/ form.password = "" \/ (form.mode = "register" /\ form.name = "")

\* history: what a call of submit found and what it left when it returned
Returned(s, form, target) ==
  [invalid |-> Invalid(s.form), authCalls |-> s.authCalls, backendCalls |-> s.backendCalls,
   loadingSet |-> s.loadingSet, error |-> form.error, loading |-> form.loading,
   redirected |-> target # "", target |-> target]

\* lines 105-109: catch and finally
CatchSubmit(message) ==
  /\ login' = [login EXCEPT !.error = IF message = "" THEN UnknownMessage ELSE message,
                            !.loading = FALSE]
  /\ submits' = Append(submits, Returned(sub, login', ""))
  /\ sub' = NoSubmit
  /\ UNCHANGED href

\* lines 101-102 and finally
Redirect ==
  /\ href' = IF search = "" THEN "/chat" ELSE search
  /\ login' = [login EXCEPT !.loading = FALSE]
  /\ submits' = Append(submits, Returned(sub, login', href'))
  /\ sub' = NoSubmit

\* a click on the button or Enter in an input (handleKeyPress tests
\* !loading, the controls are disabled while loading): submit runs to its
\* first await (lines 57-74 and 88) or returns from the validation
SubmitStart ==
  /\ Enabled
  /\ Len(submits) < MaxSubmits
  /\ LET message == ValidationError(login)
         started == [NoSubmit EXCEPT !.form = login]
     IN  IF message # null
           THEN /\ login' = [login EXCEPT !.error = message]
                /\ submits' = Append(submits, Returned(started, login', ""))
                /\ UNCHANGED sub
           ELSE /\ login' = [login EXCEPT !.error = null, !.loading = TRUE]
                /\ sub' = [started EXCEPT !.pc = "sign", !.authCalls = 1, !.loadingSet = TRUE]
                /\ UNCHANGED submits
  /\ UNCHANGED <<exportVars, callbackVars, providerVars, search, href>>

\* signUpWithEmail or signInWithEmail settles (lines 72-78, 88-92)
SignSettles ==
  /\ sub.pc = "sign"
  /\ \E r \in SignResults :
       IF r.rejected \/ r.failed THEN CatchSubmit(r.message)
       ELSE /\ sub' = [sub EXCEPT !.pc = "token"]
            /\ UNCHANGED <<login, href, submits>>
  /\ UNCHANGED <<exportVars, callbackVars, providerVars, search>>

\* getIdToken settles (lines 81-85, 95-99)
TokenSettles ==
  /\ sub.pc = "token"
  /\ \E r \in TokenResults :
       IF r.rejected THEN CatchSubmit(r.message)
       ELSE IF r.token = null THEN Redirect
       ELSE /\ sub' = [sub EXCEPT !.pc = "backend", !.backendCalls = 1]
            /\ UNCHANGED <<login, href, submits>>
  /\ UNCHANGED <<exportVars, callbackVars, providerVars, search>>

\* api.auth.supabaseAuth settles (lines 84, 98)
BackendSettles ==
  /\ sub.pc = "backend"
  /\ \E r \in BackendResults :
       IF r.rejected THEN CatchSubmit(r.message) ELSE Redirect
  /\ UNCHANGED <<exportVars, callbackVars, providerVars, search>>

NextLogin ==
  \/ SetEmail \/ SetPassword \/ SetName \/ ToggleMode
  \/ SubmitStart \/ SignSettles \/ TokenSettles \/ BackendSettles

\* the export component without a conversation
ExportEmptyProps ==
  ExportInitOn([messages |-> <<>>, conversationTitle |-> undefined,
                userName |-> DefaultUserName, faultAt |-> "none"])

InitLogin ==
  /\ ExportEmptyProps /\ CallbackIdle /\ ProviderMounted
  /\ \E q \in RedirectParams : LoginIdleAt(q)

SpecLogin == InitLogin /\ [][NextLogin]_vars

\* the three ways a call of submit can have ended
ValidationFailure(s) ==
  /\ s.error \in {RequiredMessage, NameMessage}
  /\ s.authCalls = 0 /\ s.backendCalls = 0
  /\ ~s.loadingSet /\ ~s.loading
  /\ ~s.redirected

AuthenticationFailure(s) ==
  /\ s.error # null
  /\ s.authCalls = 1
  /\ ~s.redirected
  /\ ~s.loading

Redirected(s) ==
  /\ s.redirected
  /\ s.target = (IF search = "" THEN "/chat" ELSE search)
  /\ s.error = null
  /\ s.authCalls = 1

\* C30: a call of submit that has returned ended in exactly one of:
\* validation failure (exactly when email or password is empty, or the
\* name is empty in register mode) with its message set, no call of
\* signIn/signUp or the backend, and loading never set; authentication
\* failure with an error message and no redirect; redirect to the target
\* with no error.  Error and redirect never come together, loading is
\* false after the two failures, and while a call waits the error of the
\* submit before is cleared and loading is true
C30_SubmitOutcomes ==
  /\ \A k \in 1..Len(submits) :
       LET s == submits[k]
       IN  /\ \/ ValidationFailure(s) /\ ~AuthenticationFailure(s) /\ ~Redirected(s)
              \/ ~ValidationFailure(s) /\ AuthenticationFailure(s) /\ ~Redirected(s)
              \/ ~ValidationFailure(s) /\ ~AuthenticationFailure(s) /\ Redirected(s)
           /\ ValidationFailure(s) <=> s.invalid
           /\ ~(s.error # null /\ s.redirected)
           /\ s.redirected => k = Len(submits) /\ href = s.target
  /\ sub.pc # "idle" => (login.error = null /\ login.loading /\ href = "")

\* a submit in register mode that failed the validation for the name,
\* then one that created the backend session and redirected to the
\* page named by the redirect parameter
C30_Witness ==
  /\ Len(submits) = 2
  /\ ValidationFailure(submits[1])
  /\ submits[1].invalid /\ submits[1].error = NameMessage
  /\ Redirected(submits[2]) /\ submits[2].target = "/history"
  /\ submits[2].backendCalls = 1

====
